---- MODULE Spec2Model ----
(***************************************************************************)
(* Posture corrector: the notification gate (NotificationService), the     *)
(* bad-posture tracker (CameraFeed duration effect + notifyPostureStatus)  *)
(* and calibration capture (PostureDetectionService.calibrate).            *)
(*                                                                         *)
(* Time is Date.now() counted in steps of 1/StepsPerSecond seconds, so     *)
(* 1000 ms is StepsPerSecond steps and a duration of d steps is            *)
(* d / StepsPerSecond seconds.                                             *)
(***************************************************************************)
EXTENDS Integers, Sequences, FiniteSets, TLC

\* ------------------------------------------------------------------ bounds
StepsPerSecond == 2          \* clock resolution (steps per second)
StartTime == 200             \* Date.now() when the services are constructed
GateHorizon == 1             \* steps the gate specification lets the clock run
MaxAlerts == 3               \* notifications the gate specification lets the tabs create
MaxInFlight == 1             \* undelivered messages per (receiver, sender) pair
MaxSettingChanges == 1       \* setEnabled / setCooldown calls in one behaviour
TrackerHorizon == 190        \* steps the tracker specification lets the clock run
MaxLate == 1                 \* steps a due interval callback may run late
MaxCalibrations == 2         \* calibrate() calls in one behaviour
MaxRuns == 2                 \* processFrame runs awaiting detectPose at once
MaxPendingFrames == 2        \* requested animation frames not yet run
SchedulerHorizon == 2        \* steps the scheduler specification lets the clock run
StoreHorizon == 1            \* single steps the store specification's clock takes before and after the expiry period

\* --------------------------------------------------------- program values
Tabs == {"tabA", "tabB", "tabC"}            \* tabId = crypto.randomUUID(), one per open tab
Null == 0 - 1                                \* a ref holding null
Ms(ms) == (ms * StepsPerSecond) \div 1000    \* milliseconds -> clock steps
NotificationCooldownDefault == Ms(60000)     \* notificationCooldown: number = 60000
CooldownChoices == {1, 2}                    \* arguments of setCooldown(), in steps
Permissions == {"default", "granted", "denied"}

VARIABLES
  now,                    \* Date.now()
  permission,             \* Notification.permission (one per origin, shared by the tabs)
  promptOpen,             \* a Notification.requestPermission() prompt awaits the user
  lastNotificationTime,   \* [tab -> time]
  notificationCooldown,   \* [tab -> steps]
  notificationEnabled,    \* [tab -> BOOLEAN]
  channel,                \* BroadcastChannel 'posture-notifications':
                          \*   [receiver -> [sender -> Seq(message)]], FIFO per pair
  alerts,                 \* the Notifications created so far, in order; shown = the
                          \*   constructor did not throw, the user saw the alert
  steady,                 \* [tab -> BOOLEAN]: since its last alert the tab neither took a
                          \*   sibling's timestamp nor had setCooldown called
  heard,                  \* [tab -> latest timestamp received from a sibling, 0 if none]
  settingChanges,         \* setEnabled / setCooldown calls so far
  notifyCall,             \* the latest recorded notifyBadPosture() call: its tab and
                          \*   what the tab's settings and the permission were
  isWebcamOn,             \* CameraFeed state
  postureStatus,          \* CameraFeed state: "unknown", "good" or "bad"
  badPostureDuration,     \* CameraFeed state, in steps (seconds * StepsPerSecond)
  badPostureStartTimeRef, \* CameraFeed ref: Date.now() of the first bad frame, or Null
  intervalDue,            \* when the 1000 ms interval of the duration effect is due, or
                          \*   Null while no interval is set
  tierFired,              \* [tier -> whole seconds at which notifyPostureStatus called
                          \*   notifyBadPosture for that tier in the current session]
  wasReset,               \* a good frame has ended a bad-posture session
  calibrationData,        \* PostureDetectionService field: <<>> for null, else <<data>>
  calibrationTimestamp,   \* PostureDetectionService field
  localStorage,           \* the two keys the service uses: <<>> for a missing key
  calibrateCall,          \* the latest calibrate() call: its poses, how many
                          \*   localStorage.setItem calls went through, its result
  calibrations,           \* number of calibrate() calls so far
  tampered,               \* something other than the service has written a key
  loadOutcome,            \* what the latest loadCalibrationData() did: "absent",
                          \*   "loaded" or "cleared" (JSON.parse threw)
  analyzeCall,            \* the latest analyzePosture() call: its arguments, the
                          \*   settings it classified with, its result
  isTabVisible,           \* CameraFeed state
  modelReady,             \* CameraFeed state
  inFlight,               \* processFrame runs awaiting detectPose: the values of
                          \*   isWebcamOn, isTabVisible, modelReady each one closed over
  pendingFrames,          \* requestAnimationFrame callbacks not yet run, likewise
  animationFrameRef,      \* position in pendingFrames of the request whose id
                          \*   animationFrameRef holds, 0 when that request is no longer pending
  lastEvent,              \* what CameraFeed handled last: "mount", "toggleWebcam",
                          \*   "visibilitychange", "modelReady", "animationFrame", "detectPose"
  showCalibration,        \* App state: the calibration modal is open
  isCalibrated,           \* App state
  startupCheck,           \* App.checkCalibration: "todo", "awaiting" (its loadModel), "done"
  cameraFeedEffectPending,\* CameraFeed's mount effect is to run (again: App has
                          \*   rendered, onCalibrationNeeded is a new function)
  modalEffectPending,     \* CalibrationModal's effect on isOpen is to run
  step,                   \* CalibrationModal state: 1 instructions, 2 countdown, 3 success
  countdown,              \* CalibrationModal state
  calibrating,            \* performCalibration awaits calibrate()
  capturedSinceOpen,      \* a capture has succeeded since the modal was last opened
  modelLoading,           \* PostureDetectionService field
  model,                  \* PostureDetectionService field: "none" for null, else "detector"
                          \*   (modelReady of the service is set with it)
  loader,                 \* the caller whose loadModel() is creating the detector
  detectorsCreated,       \* number of detectors createDetector has returned
  loadModelCall           \* the loadModel() call that settled last: its caller, its
                          \*   outcome, whether the detector was there when it settled

gateVars == <<now, permission, promptOpen, lastNotificationTime, notificationCooldown,
              notificationEnabled, channel, alerts, steady, heard,
              settingChanges, notifyCall>>

trackerVars == <<isWebcamOn, postureStatus, badPostureDuration, badPostureStartTimeRef,
                 intervalDue, tierFired, wasReset>>

calVars == <<calibrationData, calibrationTimestamp, localStorage, calibrateCall,
             calibrations, tampered, loadOutcome, analyzeCall>>

schedVars == <<isTabVisible, modelReady, inFlight, pendingFrames, animationFrameRef, lastEvent>>

appVars == <<showCalibration, isCalibrated, startupCheck, cameraFeedEffectPending,
            modalEffectPending, step, countdown, calibrating, capturedSinceOpen,
            modelLoading, model, loader, detectorsCreated, loadModelCall>>

vars == <<gateVars, trackerVars, calVars, schedVars, appVars>>

TabA == "tabA"               \* the tab whose CameraFeed the tracker specification follows
Tiers == {1, 2, 3}

Max(a, b) == IF a >= b THEN a ELSE b
Min(a, b) == IF a <= b THEN a ELSE b

\* ------------------------------------------------------------ construction
\* new NotificationService() in every tab: field initialisers, checkPermission()
\* (asks the user when the permission is still 'default'), setupCrossTabSync().
\* CameraFeed as mounted: useState / useRef initial values.
InitCameraFeed ==
  /\ isWebcamOn = FALSE
  /\ postureStatus = "unknown"
  /\ badPostureDuration = 0
  /\ badPostureStartTimeRef = Null
  /\ intervalDue = Null
  /\ tierFired = [k \in Tiers |-> <<>>]
  /\ wasReset = FALSE
  /\ isTabVisible = TRUE
  /\ modelReady = FALSE
  /\ inFlight = <<>>
  /\ pendingFrames = <<>>
  /\ animationFrameRef = 0
  /\ lastEvent = "mount"

NoLoadModelCall == [caller |-> "none", outcome |-> "none", loaded |-> FALSE]

\* App and CalibrationModal as mounted, the service's model fields as constructed.
InitAppState ==
  /\ showCalibration = FALSE
  /\ isCalibrated = FALSE
  /\ startupCheck = "todo"
  /\ cameraFeedEffectPending = TRUE
  /\ modalEffectPending = FALSE
  /\ step = 1
  /\ countdown = 5
  /\ calibrating = FALSE
  /\ capturedSinceOpen = FALSE
  /\ modelLoading = FALSE
  /\ model = "none"
  /\ loader = "none"
  /\ detectorsCreated = 0
  /\ loadModelCall = NoLoadModelCall

NoNotifyCall == [tab |-> "none", enabled |-> TRUE, permission |-> "none", promptOpen |-> FALSE]

InitService(perms) ==
  /\ now = StartTime
  /\ permission \in perms
  /\ promptOpen = (permission = "default")
  /\ lastNotificationTime = [t \in Tabs |-> 0]
  /\ notificationCooldown = [t \in Tabs |-> NotificationCooldownDefault]
  /\ notificationEnabled = [t \in Tabs |-> TRUE]
  /\ channel = [r \in Tabs |-> [s \in Tabs |-> <<>>]]
  /\ alerts = <<>>
  /\ steady = [t \in Tabs |-> TRUE]
  /\ heard = [t \in Tabs |-> 0]
  /\ settingChanges = 0
  /\ notifyCall = NoNotifyCall

\* The result analyzePosture returns for no pose; before the first call it
\* stands for "no call yet" (feedback "none").
NoAnalyzeCall ==
  [poses |-> <<>>, settings |-> <<>>, calibrated |-> FALSE, expired |-> FALSE,
   currentSettings |-> [shoulderAlignmentThreshold |-> 0, slouchThreshold |-> 0],
   result |-> [slouchLevel |-> 0, shoulderAlignment |-> 0, criticalPoints |-> <<>>,
               isGoodPosture |-> FALSE, feedback |-> "none"]]

\* new PostureDetectionService(): field initialisers, then loadCalibrationData()
\* on a localStorage that holds neither key.
NoCalibrateCall == [poses |-> <<>>, writes |-> 0, result |-> "none"]

InitPostureDetection ==
  /\ calibrationData = <<>>
  /\ calibrationTimestamp = 0
  /\ localStorage = [postureCalibrationData |-> <<>>, postureCalibrationTimestamp |-> <<>>]
  /\ calibrateCall = NoCalibrateCall
  /\ calibrations = 0
  /\ tampered = FALSE
  /\ loadOutcome = "absent"
  /\ analyzeCall = NoAnalyzeCall

InitGate == InitService(Permissions) /\ InitCameraFeed /\ InitPostureDetection /\ InitAppState

\* ------------------------------------------------------------------ gate
\* broadcastNotification(): one message to every other BroadcastChannel object
\* of the origin (a channel never delivers to the object that posted).
BroadcastMessage(t) == [type |-> "notification", tabId |-> t, timestamp |-> now]

broadcastNotification(t) ==
  [r \in Tabs |->
     IF r = t THEN channel[r]
     ELSE [channel[r] EXCEPT ![t] = Append(@, BroadcastMessage(t))]]

\* The cooldown test one step too short (a fire passes one step early).
OnCooldownOffByOne(t) == now - lastNotificationTime[t] < notificationCooldown[t] - 1

\* The cooldown test of notifyBadPosture.
OnCooldown(t) == now - lastNotificationTime[t] < notificationCooldown[t]

\* requestPermission(): prompts only while the permission is undecided.
requestPermission == promptOpen' = (promptOpen \/ permission = "default")

\* notifyBadPosture that takes the timestamp and broadcasts before it looks at
\* the permission.
notifyBadPostureStampsFirst(t, emitOk) ==
  IF ~notificationEnabled[t] THEN
    UNCHANGED <<permission, promptOpen, lastNotificationTime, channel, alerts, steady>>
  ELSE IF OnCooldown(t) THEN
    UNCHANGED <<permission, promptOpen, lastNotificationTime, channel, alerts, steady>>
  ELSE
    /\ lastNotificationTime' = [lastNotificationTime EXCEPT ![t] = now]
    /\ channel' = broadcastNotification(t)
    /\ IF permission = "granted"
       THEN /\ alerts' = Append(alerts, [tab |-> t, time |-> now, shown |-> emitOk,
                                         cooldown |-> notificationCooldown[t],
                                         steady |-> steady[t], heard |-> heard[t]])
            /\ steady' = [steady EXCEPT ![t] = IF emitOk THEN TRUE ELSE @]
            /\ UNCHANGED <<permission, promptOpen>>
       ELSE /\ requestPermission
            /\ UNCHANGED <<permission, alerts, steady>>

\* notifyBadPosture that takes the timestamp and broadcasts only after the
\* Notification was created.
notifyBadPostureStampsOnSuccess(t, emitOk) ==
  IF ~notificationEnabled[t] THEN
    UNCHANGED <<permission, promptOpen, lastNotificationTime, channel, alerts, steady>>
  ELSE IF permission # "granted" THEN
    /\ requestPermission
    /\ UNCHANGED <<permission, lastNotificationTime, channel, alerts, steady>>
  ELSE IF OnCooldown(t) THEN
    UNCHANGED <<permission, promptOpen, lastNotificationTime, channel, alerts, steady>>
  ELSE
    /\ lastNotificationTime' =
         IF emitOk THEN [lastNotificationTime EXCEPT ![t] = now] ELSE lastNotificationTime
    /\ channel' = IF emitOk THEN broadcastNotification(t) ELSE channel
    /\ alerts' = Append(alerts, [tab |-> t, time |-> now, shown |-> emitOk,
                                 cooldown |-> notificationCooldown[t],
                                 steady |-> steady[t], heard |-> heard[t]])
    /\ steady' = [steady EXCEPT ![t] = IF emitOk THEN TRUE ELSE @]
    /\ UNCHANGED <<permission, promptOpen>>

\* notifyBadPosture without its test of notificationEnabled.
notifyBadPostureIgnoresEnabled(t, emitOk) ==
  IF permission # "granted" THEN
    /\ requestPermission
    /\ UNCHANGED <<permission, lastNotificationTime, channel, alerts, steady>>
  ELSE IF OnCooldown(t) THEN
    UNCHANGED <<permission, promptOpen, lastNotificationTime, channel, alerts, steady>>
  ELSE
    /\ lastNotificationTime' = [lastNotificationTime EXCEPT ![t] = now]
    /\ channel' = broadcastNotification(t)
    /\ alerts' = Append(alerts, [tab |-> t, time |-> now, shown |-> emitOk,
                                 cooldown |-> notificationCooldown[t],
                                 steady |-> steady[t], heard |-> heard[t]])
    /\ steady' = [steady EXCEPT ![t] = IF emitOk THEN TRUE ELSE @]
    /\ UNCHANGED <<permission, promptOpen>>

\* notifyBadPosture(message) in tab t; emitOk = "new Notification(...)" did not throw.
notifyBadPosture(t, emitOk) ==
  IF ~notificationEnabled[t] THEN
    UNCHANGED <<permission, promptOpen, lastNotificationTime, channel, alerts, steady>>
  ELSE IF permission # "granted" THEN
    /\ requestPermission
    /\ UNCHANGED <<permission, lastNotificationTime, channel, alerts, steady>>
  ELSE IF OnCooldown(t) THEN
    UNCHANGED <<permission, promptOpen, lastNotificationTime, channel, alerts, steady>>
  ELSE
    /\ lastNotificationTime' = [lastNotificationTime EXCEPT ![t] = now]
    /\ channel' = broadcastNotification(t)
    /\ alerts' = Append(alerts, [tab |-> t, time |-> now, shown |-> emitOk,
                                 cooldown |-> notificationCooldown[t],
                                 steady |-> steady[t], heard |-> heard[t]])
    /\ steady' = [steady EXCEPT ![t] = IF emitOk THEN TRUE ELSE @]
    /\ UNCHANGED <<permission, promptOpen>>

Fire(t, emitOk) ==
  /\ UNCHANGED <<trackerVars, calVars, schedVars, appVars>>
  /\ Len(alerts) < MaxAlerts
  /\ \A r \in Tabs : Len(channel[r][t]) < MaxInFlight
  /\ notifyBadPosture(t, emitOk)
  /\ UNCHANGED <<now, notificationCooldown, notificationEnabled, heard, settingChanges, notifyCall>>

\* The handler without the test on the sender's tabId.
onmessageNoTabCheck(r, data) ==
  IF data.type = "notification"
  THEN /\ lastNotificationTime' = [lastNotificationTime EXCEPT ![r] = data.timestamp]
       /\ steady' = [steady EXCEPT ![r] = FALSE]
       /\ heard' = [heard EXCEPT ![r] = Max(@, data.timestamp)]
  ELSE UNCHANGED <<lastNotificationTime, steady, heard>>

\* notificationChannel.onmessage = (event) => ..., data = event.data.
onmessage(r, data) ==
  IF data.tabId # r /\ data.type = "notification"
  THEN /\ lastNotificationTime' = [lastNotificationTime EXCEPT ![r] = data.timestamp]
       /\ steady' = [steady EXCEPT ![r] = FALSE]
       /\ heard' = [heard EXCEPT ![r] = Max(@, data.timestamp)]
  ELSE UNCHANGED <<lastNotificationTime, steady, heard>>

Deliver(r, s) ==
  /\ UNCHANGED <<trackerVars, calVars, schedVars, appVars>>
  /\ channel[r][s] # <<>>
  /\ onmessage(r, Head(channel[r][s]))
  /\ channel' = [channel EXCEPT ![r][s] = Tail(@)]
  /\ UNCHANGED <<now, permission, promptOpen, notificationCooldown, notificationEnabled,
                 alerts, settingChanges, notifyCall>>

\* Another publisher of the same origin posts on 'posture-notifications' a message
\* the handler has to ignore (it carries the receiver's own tabId, or another
\* type); the handler runs on it.
OtherTypes == {"notification", "other"}

OtherMessage(r, s, type) ==
  /\ UNCHANGED <<trackerVars, calVars, schedVars, appVars>>
  /\ s = r \/ type # "notification"
  /\ onmessage(r, [type |-> type, tabId |-> s, timestamp |-> now])
  /\ UNCHANGED <<now, permission, promptOpen, notificationCooldown, notificationEnabled,
                 channel, alerts, settingChanges, notifyCall>>

setEnabled(t, enabled) ==
  /\ UNCHANGED <<trackerVars, calVars, schedVars, appVars>>
  /\ settingChanges < MaxSettingChanges
  /\ settingChanges' = settingChanges + 1
  /\ notificationEnabled' = [notificationEnabled EXCEPT ![t] = enabled]
  /\ UNCHANGED <<now, permission, promptOpen, lastNotificationTime, notificationCooldown,
                 channel, alerts, steady, heard, notifyCall>>

setCooldown(t, milliseconds) ==
  /\ UNCHANGED <<trackerVars, calVars, schedVars, appVars>>
  /\ settingChanges < MaxSettingChanges
  /\ settingChanges' = settingChanges + 1
  /\ notificationCooldown' = [notificationCooldown EXCEPT ![t] = milliseconds]
  /\ steady' = [steady EXCEPT ![t] = FALSE]
  /\ UNCHANGED <<now, permission, promptOpen, lastNotificationTime, notificationEnabled,
                 channel, alerts, heard, notifyCall>>

\* The user answers the permission prompt.
AnswerPrompt(p) ==
  /\ UNCHANGED <<trackerVars, calVars, schedVars, appVars>>
  /\ promptOpen
  /\ promptOpen' = FALSE
  /\ permission' = p
  /\ UNCHANGED <<now, lastNotificationTime, notificationCooldown, notificationEnabled,
                 channel, alerts, steady, heard, settingChanges, notifyCall>>

AdvanceGateClock ==
  /\ UNCHANGED <<trackerVars, calVars, schedVars, appVars>>
  /\ now < StartTime + GateHorizon
  /\ now' = now + 1
  /\ UNCHANGED <<permission, promptOpen, lastNotificationTime, notificationCooldown,
                 notificationEnabled, channel, alerts, steady, heard,
                 settingChanges, notifyCall>>

NextGate ==
  \/ \E t \in Tabs, emitOk \in BOOLEAN : Fire(t, emitOk)
  \/ \E r \in Tabs, s \in Tabs : Deliver(r, s)
  \/ \E r \in Tabs, s \in Tabs, type \in OtherTypes : OtherMessage(r, s, type)
  \/ \E t \in Tabs, enabled \in BOOLEAN : setEnabled(t, enabled)
  \/ \E t \in Tabs, c \in CooldownChoices : setCooldown(t, c)
  \/ \E p \in {"granted", "denied"} : AnswerPrompt(p)
  \/ AdvanceGateClock

SpecGate == InitGate /\ [][NextGate]_vars

\* A call of notifyBadPosture whose circumstances are recorded, so that the
\* calls that return early can be told from no call at all.
Notify(t, emitOk) ==
  /\ UNCHANGED <<trackerVars, calVars, schedVars, appVars>>
  /\ Len(alerts) < MaxAlerts
  /\ \A r \in Tabs : Len(channel[r][t]) < MaxInFlight
  /\ notifyBadPosture(t, emitOk)
  /\ notifyCall' = [tab |-> t, enabled |-> notificationEnabled[t],
                    permission |-> permission, promptOpen |-> promptOpen]
  /\ UNCHANGED <<now, notificationCooldown, notificationEnabled, heard, settingChanges>>

\* The calls of notifyBadPosture under every permission: the user may also
\* dismiss the prompt, which leaves the permission 'default'.
InitNotify == InitGate

NextNotify ==
  \/ \E t \in Tabs, emitOk \in BOOLEAN : Notify(t, emitOk)
  \/ \E r \in Tabs, s \in Tabs : Deliver(r, s)
  \/ \E t \in Tabs, enabled \in BOOLEAN : setEnabled(t, enabled)
  \/ \E p \in Permissions : AnswerPrompt(p)
  \/ AdvanceGateClock

SpecNotify == InitNotify /\ [][NextNotify]_vars

\* --------------------------------------------------------------- tracker
Seconds(duration) == duration \div StepsPerSecond        \* Math.floor(duration)
AtLeastSeconds(duration, n) == duration >= n * StepsPerSecond
MoreThanSeconds(duration, n) == duration > n * StepsPerSecond
LessThanSeconds(duration, n) == duration < n * StepsPerSecond

\* The branch of notifyPostureStatus(status, duration) that calls notifyBadPosture:
\* 1 "initial", 2 "early", 3 "periodic", 0 when it calls nothing.
TierOf(status, duration) ==
  IF status = "bad" /\ MoreThanSeconds(duration, 5)
  THEN IF Seconds(duration) = 5 THEN 1
       ELSE IF LessThanSeconds(duration, 60) /\ Seconds(duration) % 10 = 0 THEN 2
       ELSE IF AtLeastSeconds(duration, 60) /\ Seconds(duration) % 30 = 0 THEN 3
       ELSE 0
  ELSE 0

\* notifyPostureStatus(status, duration) of the tab's NotificationService.
notifyPostureStatus(status, duration, emitOk) ==
  LET tier == TierOf(status, duration) IN
    IF tier = 0
    THEN UNCHANGED <<permission, promptOpen, lastNotificationTime, channel, alerts,
                     steady, tierFired>>
    ELSE /\ tierFired' = [tierFired EXCEPT ![tier] = Append(@, Seconds(duration))]
         /\ notifyBadPosture(TabA, emitOk)

\* The interval callback's own test before it calls notifyPostureStatus.
IntervalNotifies(duration) ==
  MoreThanSeconds(duration, 30) /\ Seconds(duration) % 60 = 0

\* The duration effect with an else-branch that leaves the start ref alone.
DurationEffectKeepsStart(status) ==
  IF status = "bad"
  THEN /\ badPostureStartTimeRef' =
            IF badPostureStartTimeRef = Null THEN now ELSE badPostureStartTimeRef
       /\ intervalDue' = now + Ms(1000)
       /\ tierFired' = IF badPostureStartTimeRef = Null
                       THEN [k \in Tiers |-> <<>>] ELSE tierFired
       /\ UNCHANGED badPostureDuration
  ELSE /\ badPostureDuration' = 0
       /\ intervalDue' = Null
       /\ UNCHANGED <<badPostureStartTimeRef, tierFired>>

\* The body of the duration effect, run when postureStatus has changed to status.
DurationEffect(status) ==
  IF status = "bad"
  THEN /\ badPostureStartTimeRef' =
            IF badPostureStartTimeRef = Null THEN now ELSE badPostureStartTimeRef
       /\ intervalDue' = now + Ms(1000)
       /\ tierFired' = IF badPostureStartTimeRef = Null
                       THEN [k \in Tiers |-> <<>>] ELSE tierFired
       /\ UNCHANGED badPostureDuration
  ELSE /\ badPostureStartTimeRef' = Null
       /\ badPostureDuration' = 0
       /\ intervalDue' = Null
       /\ UNCHANGED tierFired

\* processFrame that takes a new start time at every bad frame.
ProcessFrameRestartsOnBad(isGoodPosture) ==
  LET status == IF isGoodPosture THEN "good" ELSE "bad" IN
    /\ isWebcamOn
    /\ postureStatus' = status
    /\ IF status # postureStatus
       THEN DurationEffect(status)
       ELSE /\ badPostureStartTimeRef' = IF status = "bad" THEN now ELSE badPostureStartTimeRef
            /\ UNCHANGED <<badPostureDuration, intervalDue, tierFired>>
    /\ wasReset' = (wasReset \/ (postureStatus = "bad" /\ isGoodPosture))
    /\ UNCHANGED <<gateVars, isWebcamOn, calVars, schedVars, appVars>>

\* processFrame once the pose is detected and analysed:
\* setPostureStatus(result.isGoodPosture ? GOOD : BAD), then the duration effect
\* (cleanup of the old interval, new body) when the status has changed.
ProcessFrame(isGoodPosture) ==
  LET status == IF isGoodPosture THEN "good" ELSE "bad" IN
    /\ isWebcamOn
    /\ postureStatus' = status
    /\ IF status # postureStatus
       THEN DurationEffect(status)
       ELSE UNCHANGED <<badPostureStartTimeRef, badPostureDuration, intervalDue, tierFired>>
    /\ wasReset' = (wasReset \/ (postureStatus = "bad" /\ isGoodPosture))
    /\ UNCHANGED <<gateVars, isWebcamOn, calVars, schedVars, appVars>>

\* The setInterval callback of the duration effect, run when due (or late); the
\* next run is due 1000 ms after this one.
IntervalTick(emitOk) ==
  /\ intervalDue # Null
  /\ now >= intervalDue
  /\ intervalDue' = now + Ms(1000)
  /\ IF badPostureStartTimeRef # Null /\ badPostureStartTimeRef # 0
     THEN LET duration == now - badPostureStartTimeRef IN
            /\ badPostureDuration' = duration
            /\ IF IntervalNotifies(duration)
               THEN notifyPostureStatus("bad", duration, emitOk)
               ELSE UNCHANGED <<permission, promptOpen, lastNotificationTime, channel,
                                alerts, steady, tierFired>>
     ELSE UNCHANGED <<permission, promptOpen, lastNotificationTime, channel, alerts,
                      steady, tierFired, badPostureDuration>>
  /\ UNCHANGED <<now, notificationCooldown, notificationEnabled, heard, settingChanges, notifyCall,
                 isWebcamOn, postureStatus, badPostureStartTimeRef, wasReset, calVars, schedVars, appVars>>

\* toggleWebcam and the start/stop effect: stopping sets the status to UNKNOWN,
\* the duration to 0 and the start ref to null; the duration effect follows the
\* status change.
ToggleWebcam ==
  /\ isWebcamOn' = ~isWebcamOn
  /\ IF isWebcamOn
     THEN /\ postureStatus' = "unknown"
          /\ IF postureStatus # "unknown"
             THEN DurationEffect("unknown")
             ELSE /\ badPostureDuration' = 0
                  /\ badPostureStartTimeRef' = Null
                  /\ UNCHANGED <<intervalDue, tierFired>>
     ELSE UNCHANGED <<postureStatus, badPostureDuration, badPostureStartTimeRef,
                      intervalDue, tierFired>>
  /\ UNCHANGED <<gateVars, wasReset, calVars, schedVars, appVars>>

\* Time passes; a due interval callback runs at most MaxLate steps late.
AdvanceTrackerClock ==
  /\ now < StartTime + TrackerHorizon
  /\ intervalDue = Null \/ now < intervalDue + MaxLate
  /\ now' = now + 1
  /\ UNCHANGED <<permission, promptOpen, lastNotificationTime, notificationCooldown,
                 notificationEnabled, channel, alerts, steady, heard, settingChanges, notifyCall,
                 trackerVars, calVars, schedVars, appVars>>

InitTracker == InitService({"granted"}) /\ InitCameraFeed /\ InitPostureDetection /\ InitAppState

NextTracker ==
  \/ \E isGoodPosture \in BOOLEAN : ProcessFrame(isGoodPosture)
  \/ \E emitOk \in BOOLEAN : IntervalTick(emitOk)
  \/ ToggleWebcam
  \/ AdvanceTrackerClock

SpecTracker == InitTracker /\ [][NextTracker]_vars

\* ----------------------------------------------------------- calibration
\* Coordinates are whole pixels, scores hundredths (0.4 is 40), angles hundredths
\* of a degree.
Joints == {"left_shoulder", "right_shoulder", "left_ear", "right_ear", "nose"}
requiredKeypoints == <<"left_shoulder", "right_shoulder", "left_ear", "right_ear", "nose">>
Abs(n) == IF n < 0 THEN 0 - n ELSE n

\* Math.atan2 in hundredths of a degree: exact on the axes and the diagonals,
\* within 0.3 degrees elsewhere.
AtanOctant(b, a) == (b * (4500 * a + 1566 * (a - b))) \div (a * a)
AtanQuadrant(y, x) == IF y <= x THEN AtanOctant(y, x) ELSE 9000 - AtanOctant(x, y)
Atan2(y, x) ==
  IF x = 0 /\ y = 0 THEN 0
  ELSE IF x >= 0 /\ y >= 0 THEN AtanQuadrant(y, x)
  ELSE IF x < 0 /\ y >= 0 THEN 18000 - AtanQuadrant(y, 0 - x)
  ELSE IF x < 0 THEN AtanQuadrant(0 - y, 0 - x) - 18000
  ELSE 0 - AtanQuadrant(0 - y, x)

calculateAngle(x1, y1, x2, y2, x3, y3) ==
  LET angleDegrees == Atan2(y3 - y2, x3 - x2) - Atan2(y1 - y2, x1 - x2) IN
    IF angleDegrees < 0 THEN angleDegrees + 36000 ELSE angleDegrees

\* keypoints.find(kp => kp.name === name): found = FALSE stands for undefined.
MissingKeypoint == [found |-> FALSE, x |-> 0, y |-> 0, score |-> 0]
Keypoint(x, y) == [found |-> TRUE, x |-> x, y |-> y, score |-> 90]

\* The poses detectPose is taken to return: a level, camera-facing pose with each
\* ear above its shoulder, changed in at most two respects.
BasePose ==
  [j \in Joints |->
     CASE j = "left_shoulder" -> Keypoint(100, 200)
       [] j = "right_shoulder" -> Keypoint(300, 200)
       [] j = "left_ear" -> Keypoint(100, 100)
       [] j = "right_ear" -> Keypoint(300, 100)
       [] j = "nose" -> Keypoint(200, 100)]

Deviations ==
  {[kind |-> "none", joint |-> "nose", value |-> 0]}
    \cup {[kind |-> "absent", joint |-> j, value |-> 0] : j \in Joints}
    \cup {[kind |-> "score", joint |-> j, value |-> v] : j \in Joints, v \in {0, 39, 40}}
    \cup {[kind |-> "y", joint |-> "right_shoulder", value |-> v] : v \in {230, 231}}
    \cup {[kind |-> "y", joint |-> "right_ear", value |-> v] : v \in {120, 121}}
    \cup {[kind |-> "x", joint |-> "nose", value |-> v] : v \in {99, 100, 300, 301}}

Deviate(pose, d) ==
  IF d.kind = "none" \/ ~pose[d.joint].found THEN pose
  ELSE IF d.kind = "absent" THEN [pose EXCEPT ![d.joint] = MissingKeypoint]
  ELSE IF d.kind = "score" THEN [pose EXCEPT ![d.joint].score = d.value]
  ELSE IF d.kind = "y" THEN [pose EXCEPT ![d.joint].y = d.value]
  ELSE [pose EXCEPT ![d.joint].x = d.value]

PoseInputs == {Deviate(Deviate(BasePose, d1), d2) : d1 \in Deviations, d2 \in Deviations}
PosesInputs == {<<>>} \cup {<<pose>> : pose \in PoseInputs}

minConfidence == 40

\* The loop over requiredKeypoints: the first keypoint that fails, 0 if none.
FirstFailing(pose, i) ==
  LET Fails(k) == \/ ~pose[requiredKeypoints[k]].found
                  \/ /\ pose[requiredKeypoints[k]].score # 0
                     /\ pose[requiredKeypoints[k]].score < minConfidence
      failing == {k \in i..Len(requiredKeypoints) : Fails(k)}
  IN IF failing = {} THEN 0 ELSE CHOOSE k \in failing : \A m \in failing : k <= m

\* validatePoseForCalibration(pose): "valid", or the reason of the first check
\* that fails.
validatePoseForCalibration(pose) ==
  LET leftShoulder == pose["left_shoulder"]
      rightShoulder == pose["right_shoulder"]
      leftEar == pose["left_ear"]
      rightEar == pose["right_ear"]
      nose == pose["nose"]
      failing == FirstFailing(pose, 1)
  IN
    IF \A j \in Joints : ~pose[j].found THEN "Invalid pose data"
    ELSE IF failing # 0 THEN
      IF ~pose[requiredKeypoints[failing]].found
      THEN "Missing required body points"
      ELSE "Low confidence detection"
    ELSE IF Abs(leftShoulder.y - rightShoulder.y) > 30 THEN "Shoulders are not level"
    ELSE IF Abs(leftEar.y - rightEar.y) > 20 THEN "Head is tilted"
    ELSE IF \/ nose.x < Min(leftEar.x, rightEar.x)
            \/ nose.x > Max(leftEar.x, rightEar.x) THEN "Please face the camera"
    ELSE "valid"

\* The CalibrationData saveCalibrationData builds from a pose.
CalibrationDataOf(pose) ==
  LET leftShoulder == pose["left_shoulder"]
      rightShoulder == pose["right_shoulder"]
      leftEar == pose["left_ear"]
      rightEar == pose["right_ear"]
      nose == pose["nose"]
      Point(kp) == [x |-> kp.x, y |-> kp.y]
  IN [referenceShoulderAlignment |-> Abs(leftShoulder.y - rightShoulder.y),
      referenceLeftSlouchAngle |->
        calculateAngle(leftEar.x, leftEar.y, leftShoulder.x, leftShoulder.y,
                       leftShoulder.x + 10, leftShoulder.y),
      referenceRightSlouchAngle |->
        calculateAngle(rightEar.x, rightEar.y, rightShoulder.x, rightShoulder.y,
                       rightShoulder.x + 10, rightShoulder.y),
      referenceKeypoints |->
        [leftShoulder |-> Point(leftShoulder), rightShoulder |-> Point(rightShoulder),
         leftEar |-> Point(leftEar), rightEar |-> Point(rightEar), nose |-> Point(nose)]]

\* The strings kept in localStorage. A number is written as its decimal digits,
\* most significant first (an angle as the digits of its hundredths), and read
\* back digit by digit.
RECURSIVE Digits(_)
Digits(n) == IF n < 10 THEN <<n>> ELSE Append(Digits(n \div 10), n % 10)

RECURSIVE ValueOfDigits(_)
ValueOfDigits(digits) ==
  IF digits = <<>> THEN 0
  ELSE 10 * ValueOfDigits(SubSeq(digits, 1, Len(digits) - 1)) + digits[Len(digits)]

\* JSON.stringify that writes the angles in whole degrees.
JsonStringifyWholeDegrees(data) ==
  [json |->
     <<[referenceShoulderAlignment |-> Digits(data.referenceShoulderAlignment),
        referenceLeftSlouchAngle |-> Digits((data.referenceLeftSlouchAngle \div 100) * 100),
        referenceRightSlouchAngle |-> Digits((data.referenceRightSlouchAngle \div 100) * 100),
        referenceKeypoints |->
          [k \in DOMAIN data.referenceKeypoints |->
             [x |-> Digits(data.referenceKeypoints[k].x),
              y |-> Digits(data.referenceKeypoints[k].y)]]]>>]

\* JSON.stringify(data) of a CalibrationData: the object with every number as
\* text; NotJson is a text JSON.parse throws on; JSON.parse(text) rebuilds the
\* object from the text.
JsonStringify(data) ==
  [json |->
     <<[referenceShoulderAlignment |-> Digits(data.referenceShoulderAlignment),
        referenceLeftSlouchAngle |-> Digits(data.referenceLeftSlouchAngle),
        referenceRightSlouchAngle |-> Digits(data.referenceRightSlouchAngle),
        referenceKeypoints |->
          [k \in DOMAIN data.referenceKeypoints |->
             [x |-> Digits(data.referenceKeypoints[k].x),
              y |-> Digits(data.referenceKeypoints[k].y)]]]>>]
NotJson == [json |-> <<>>]
JsonParses(text) == text.json # <<>>
JsonParse(text) ==
  LET object == text.json[1]
  IN [referenceShoulderAlignment |-> ValueOfDigits(object.referenceShoulderAlignment),
      referenceLeftSlouchAngle |-> ValueOfDigits(object.referenceLeftSlouchAngle),
      referenceRightSlouchAngle |-> ValueOfDigits(object.referenceRightSlouchAngle),
      referenceKeypoints |->
        [k \in DOMAIN object.referenceKeypoints |->
           [x |-> ValueOfDigits(object.referenceKeypoints[k].x),
            y |-> ValueOfDigits(object.referenceKeypoints[k].y)]]]
\* n.toString() and parseInt(text, 10)
NumberToString(n) == [digits |-> Digits(n)]
parseInt(text) == ValueOfDigits(text.digits)

\* saveCalibrationData(pose): the fields are set first, then the two setItem
\* calls run; writes of them go through before one throws (2 = none throws).
\* returns is TRUE when the method returns, FALSE when it throws.
saveCalibrationData(pose, writes, returns) ==
  IF \E j \in Joints : ~pose[j].found
  THEN /\ UNCHANGED <<calibrationData, calibrationTimestamp, localStorage>>
       /\ returns = FALSE
  ELSE /\ calibrationData' = <<CalibrationDataOf(pose)>>
       /\ calibrationTimestamp' = now
       /\ localStorage' =
            [postureCalibrationData |->
               IF writes >= 1 THEN <<JsonStringify(CalibrationDataOf(pose))>>
               ELSE localStorage.postureCalibrationData,
             postureCalibrationTimestamp |->
               IF writes >= 2 THEN <<NumberToString(now)>>
               ELSE localStorage.postureCalibrationTimestamp]
       /\ returns = (writes >= 2)

\* calibrate(imageData), poses = what detectPose resolves to.
calibrate(poses, writes) ==
  IF poses = <<>> \/ validatePoseForCalibration(poses[1]) # "valid"
  THEN /\ calibrateCall' = [poses |-> poses, writes |-> writes, result |-> "false"]
       /\ UNCHANGED <<calibrationData, calibrationTimestamp, localStorage>>
  ELSE \E saved \in BOOLEAN :
         /\ saveCalibrationData(poses[1], writes, saved)
         /\ calibrateCall' = [poses |-> poses, writes |-> writes,
                              result |-> IF saved THEN "true" ELSE "false"]

Calibrate(poses, writes) ==
  /\ calibrations < MaxCalibrations
  /\ calibrations' = calibrations + 1
  /\ calibrate(poses, writes)
  /\ UNCHANGED <<tampered, loadOutcome, analyzeCall, gateVars, trackerVars, schedVars, appVars>>

clearCalibrationData ==
  /\ calibrationData' = <<>>
  /\ calibrationTimestamp' = 0
  /\ localStorage' = [postureCalibrationData |-> <<>>, postureCalibrationTimestamp |-> <<>>]
  /\ UNCHANGED <<calibrateCall, calibrations, tampered, loadOutcome, analyzeCall,
                 gateVars, trackerVars, schedVars, appVars>>

InitCalibration == InitService({"granted"}) /\ InitCameraFeed /\ InitPostureDetection /\ InitAppState

NextCalibration ==
  \/ \E poses \in PosesInputs, writes \in 0..2 : Calibrate(poses, writes)
  \/ clearCalibrationData

SpecCalibration == InitCalibration /\ [][NextCalibration]_vars

\* ------------------------------------------------------ calibration store
CALIBRATION_EXPIRY_MS == Ms(24 * 60 * 60 * 1000)

\* loadCalibrationData(), called by the constructor on fresh fields: both keys
\* must be present (a missing key reads as null); JSON.parse may throw, and the
\* catch then runs clearCalibrationData().
\* loadCalibrationData with a catch that only logs.
loadCalibrationDataCatchOnlyLogs ==
  LET savedData == localStorage.postureCalibrationData
      savedTimestamp == localStorage.postureCalibrationTimestamp
  IN
    IF savedData # <<>> /\ savedTimestamp # <<>>
    THEN IF JsonParses(savedData[1])
         THEN /\ calibrationData' = <<JsonParse(savedData[1])>>
              /\ calibrationTimestamp' = parseInt(savedTimestamp[1])
              /\ loadOutcome' = "loaded"
              /\ UNCHANGED localStorage
         ELSE /\ calibrationData' = <<>>
              /\ calibrationTimestamp' = 0
              /\ loadOutcome' = "cleared"
              /\ UNCHANGED localStorage
    ELSE /\ calibrationData' = <<>>
         /\ calibrationTimestamp' = 0
         /\ loadOutcome' = "absent"
         /\ UNCHANGED localStorage

loadCalibrationData ==
  LET savedData == localStorage.postureCalibrationData
      savedTimestamp == localStorage.postureCalibrationTimestamp
  IN
    IF savedData # <<>> /\ savedTimestamp # <<>>
    THEN IF JsonParses(savedData[1])
         THEN /\ calibrationData' = <<JsonParse(savedData[1])>>
              /\ calibrationTimestamp' = parseInt(savedTimestamp[1])
              /\ loadOutcome' = "loaded"
              /\ UNCHANGED localStorage
         ELSE /\ calibrationData' = <<>>
              /\ calibrationTimestamp' = 0
              /\ loadOutcome' = "cleared"
              /\ localStorage' = [postureCalibrationData |-> <<>>,
                                  postureCalibrationTimestamp |-> <<>>]
    ELSE /\ calibrationData' = <<>>
         /\ calibrationTimestamp' = 0
         /\ loadOutcome' = "absent"
         /\ UNCHANGED localStorage

\* The page is loaded again: a new PostureDetectionService is constructed.
Reload ==
  /\ loadCalibrationData
  /\ UNCHANGED <<calibrateCall, calibrations, tampered, analyzeCall, gateVars, trackerVars, schedVars, appVars>>

\* Another script of the origin, or the user, overwrites the record's key with
\* a text that is not JSON.
CorruptStorage ==
  /\ ~tampered
  /\ tampered' = TRUE
  /\ localStorage' = [localStorage EXCEPT !.postureCalibrationData = <<NotJson>>]
  /\ UNCHANGED <<calibrationData, calibrationTimestamp, calibrateCall, calibrations,
                 loadOutcome, analyzeCall, gateVars, trackerVars, schedVars, appVars>>

\* isCalibrationNeeded that also answers true at the expiry period itself.
isCalibrationNeededAtExpiry ==
  \/ calibrationData = <<>>
  \/ now - calibrationTimestamp >= CALIBRATION_EXPIRY_MS

\* isCalibrationNeeded()
isCalibrationNeeded ==
  \/ calibrationData = <<>>
  \/ now - calibrationTimestamp > CALIBRATION_EXPIRY_MS

\* Date.now() moves on: by one step, or once by the expiry period.
AdvanceStoreClock(steps) ==
  /\ IF steps = 1
     THEN (now - StartTime) % CALIBRATION_EXPIRY_MS < StoreHorizon
     ELSE now - StartTime < CALIBRATION_EXPIRY_MS
  /\ now' = now + steps
  /\ UNCHANGED <<permission, promptOpen, lastNotificationTime, notificationCooldown,
                 notificationEnabled, channel, alerts, steady, heard, settingChanges, notifyCall,
                 trackerVars, calVars, schedVars, appVars>>

\* ------------------------------------------------------------- analysis
\* Thresholds and the slouch level are counted in units of 1/2000 of a pixel or
\* degree, in which (a + b) / 2 * 0.7 of two angles in hundredths of a degree and
\* 0.3 of a half pixel are whole numbers; the arithmetic is that of the reals.
Units(n) == n * 2000
CeilDiv(a, b) == (a + b - 1) \div b

\* postureSettings: the default settings of the service.
postureSettings ==
  [shoulderAlignmentThreshold |-> 15, slouchThreshold |-> 20, detectionConfidence |-> 60,
   enableNotifications |-> TRUE, notificationInterval |-> 60000]

\* { ...a, ...b }
Merge(a, b) == [k \in DOMAIN a |-> IF k \in DOMAIN b THEN b[k] ELSE a[k]]

\* { ...this.postureSettings, ...(settings || {}) }, the thresholds in units.
BaseSettings(settings) ==
  [Merge(postureSettings, settings) EXCEPT
     !.shoulderAlignmentThreshold = Units(@), !.slouchThreshold = Units(@)]

\* generateSettingsFromCalibration(baseSettings), thresholds in units, rounded
\* up to the unit (which decides the same comparisons with whole-unit metrics):
\*   ref * (1.5 + 10 / (ref + 5)) pixels, ref in pixels, and
\*   avg * (1.2 + 10 / (avg + 10)) degrees, avg = sum / 200 degrees.
\* The personalised thresholds without the floor of 0.7 times the base value.
SettingsFromCalibrationNoFloor(data, baseSettings) ==
  LET ref == data.referenceShoulderAlignment
      sum == data.referenceLeftSlouchAngle + data.referenceRightSlouchAngle
  IN [baseSettings EXCEPT
        !.shoulderAlignmentThreshold = 3000 * ref + CeilDiv(20000 * ref, ref + 5),
        !.slouchThreshold = 12 * sum + CeilDiv(20000 * sum, sum + 2000)]

\* The personalised thresholds without a margin over the reference values:
\* max(ref, 0.7 * base) and max(avg, 0.7 * base).
SettingsFromCalibrationNoMargin(data, baseSettings) ==
  LET ref == data.referenceShoulderAlignment
      sum == data.referenceLeftSlouchAngle + data.referenceRightSlouchAngle
  IN [baseSettings EXCEPT
        !.shoulderAlignmentThreshold =
          Max(Units(ref), CeilDiv(baseSettings.shoulderAlignmentThreshold * 7, 10)),
        !.slouchThreshold =
          Max(10 * sum, CeilDiv(baseSettings.slouchThreshold * 7, 10))]

SettingsFromCalibration(data, baseSettings) ==
  LET ref == data.referenceShoulderAlignment
      sum == data.referenceLeftSlouchAngle + data.referenceRightSlouchAngle
  IN [baseSettings EXCEPT
        !.shoulderAlignmentThreshold =
          Max(3000 * ref + CeilDiv(20000 * ref, ref + 5),
              CeilDiv(baseSettings.shoulderAlignmentThreshold * 7, 10)),
        !.slouchThreshold =
          Max(12 * sum + CeilDiv(20000 * sum, sum + 2000),
              CeilDiv(baseSettings.slouchThreshold * 7, 10))]

generateSettingsFromCalibration(baseSettings) ==
  IF calibrationData = <<>> THEN baseSettings
  ELSE SettingsFromCalibration(calibrationData[1], baseSettings)

\* currentSettings of analyzePosture: no test of the profile's age.
CurrentSettings(settings) ==
  IF calibrationData # <<>>
  THEN generateSettingsFromCalibration(BaseSettings(settings))
  ELSE BaseSettings(settings)

\* Classify with thresholds that are met by a metric equal to them.
ClassifyNotStrict(pose, currentSettings) ==
  LET leftShoulder == pose["left_shoulder"]
      rightShoulder == pose["right_shoulder"]
      leftEar == pose["left_ear"]
      rightEar == pose["right_ear"]
      nose == pose["nose"]
      shoulderAlignment == Abs(leftShoulder.y - rightShoulder.y)
      leftSlouchAngle ==
        calculateAngle(leftEar.x, leftEar.y, leftShoulder.x, leftShoulder.y,
                       leftShoulder.x + 10, leftShoulder.y)
      rightSlouchAngle ==
        calculateAngle(rightEar.x, rightEar.y, rightShoulder.x, rightShoulder.y,
                       rightShoulder.x + 10, rightShoulder.y)
      \* twice nose.y - (leftShoulder.y + rightShoulder.y) / 2, in half pixels
      noseToShoulderY == 2 * nose.y - (leftShoulder.y + rightShoulder.y)
      referenceNoseToShoulderY ==
        IF calibrationData # <<>>
        THEN 2 * calibrationData[1].referenceKeypoints.nose.y
               - (calibrationData[1].referenceKeypoints.leftShoulder.y
                    + calibrationData[1].referenceKeypoints.rightShoulder.y)
        ELSE 0
      noseVerticalDeviation ==
        IF calibrationData # <<>> THEN noseToShoulderY - referenceNoseToShoulderY ELSE 0
      slouchLevel ==
        (leftSlouchAngle + rightSlouchAngle) * 7
          + (IF noseVerticalDeviation > 0 THEN noseVerticalDeviation * 300 ELSE 0)
      isShoulderAligned == Units(shoulderAlignment) <= currentSettings.shoulderAlignmentThreshold
      isNotSlouchedForward == slouchLevel <= currentSettings.slouchThreshold
      Point(kp) == <<kp.x, kp.y>>
  IN [slouchLevel |-> slouchLevel,
      shoulderAlignment |-> shoulderAlignment,
      criticalPoints |-> <<Point(leftShoulder), Point(rightShoulder), Point(leftEar),
                           Point(rightEar), Point(nose)>>,
      isGoodPosture |-> isShoulderAligned /\ isNotSlouchedForward,
      feedback |->
        IF ~isShoulderAligned /\ ~isNotSlouchedForward
        THEN "Fix your posture: level your shoulders and sit up straight"
        ELSE IF ~isShoulderAligned
        THEN IF leftShoulder.y < rightShoulder.y
             THEN "Your left shoulder is higher. Try to level your shoulders"
             ELSE "Your right shoulder is higher. Try to level your shoulders"
        ELSE IF ~isNotSlouchedForward
        THEN IF 2 * slouchLevel > 3 * currentSettings.slouchThreshold
             THEN "You're significantly slouching forward. Sit up straight!"
             ELSE "You're slightly slouching forward. Sit up straight!"
        ELSE "Your posture looks good!"]

\* The classification of a complete pose: metrics, isGoodPosture, feedback.
Classify(pose, currentSettings) ==
  LET leftShoulder == pose["left_shoulder"]
      rightShoulder == pose["right_shoulder"]
      leftEar == pose["left_ear"]
      rightEar == pose["right_ear"]
      nose == pose["nose"]
      shoulderAlignment == Abs(leftShoulder.y - rightShoulder.y)
      leftSlouchAngle ==
        calculateAngle(leftEar.x, leftEar.y, leftShoulder.x, leftShoulder.y,
                       leftShoulder.x + 10, leftShoulder.y)
      rightSlouchAngle ==
        calculateAngle(rightEar.x, rightEar.y, rightShoulder.x, rightShoulder.y,
                       rightShoulder.x + 10, rightShoulder.y)
      \* twice nose.y - (leftShoulder.y + rightShoulder.y) / 2, in half pixels
      noseToShoulderY == 2 * nose.y - (leftShoulder.y + rightShoulder.y)
      referenceNoseToShoulderY ==
        IF calibrationData # <<>>
        THEN 2 * calibrationData[1].referenceKeypoints.nose.y
               - (calibrationData[1].referenceKeypoints.leftShoulder.y
                    + calibrationData[1].referenceKeypoints.rightShoulder.y)
        ELSE 0
      noseVerticalDeviation ==
        IF calibrationData # <<>> THEN noseToShoulderY - referenceNoseToShoulderY ELSE 0
      slouchLevel ==
        (leftSlouchAngle + rightSlouchAngle) * 7
          + (IF noseVerticalDeviation > 0 THEN noseVerticalDeviation * 300 ELSE 0)
      isShoulderAligned == Units(shoulderAlignment) < currentSettings.shoulderAlignmentThreshold
      isNotSlouchedForward == slouchLevel < currentSettings.slouchThreshold
      Point(kp) == <<kp.x, kp.y>>
  IN [slouchLevel |-> slouchLevel,
      shoulderAlignment |-> shoulderAlignment,
      criticalPoints |-> <<Point(leftShoulder), Point(rightShoulder), Point(leftEar),
                           Point(rightEar), Point(nose)>>,
      isGoodPosture |-> isShoulderAligned /\ isNotSlouchedForward,
      feedback |->
        IF ~isShoulderAligned /\ ~isNotSlouchedForward
        THEN "Fix your posture: level your shoulders and sit up straight"
        ELSE IF ~isShoulderAligned
        THEN IF leftShoulder.y < rightShoulder.y
             THEN "Your left shoulder is higher. Try to level your shoulders"
             ELSE "Your right shoulder is higher. Try to level your shoulders"
        ELSE IF ~isNotSlouchedForward
        THEN IF 2 * slouchLevel > 3 * currentSettings.slouchThreshold
             THEN "You're significantly slouching forward. Sit up straight!"
             ELSE "You're slightly slouching forward. Sit up straight!"
        ELSE "Your posture looks good!"]

\* analyzePosture that looks for the two shoulders only.
analyzePostureShouldersOnly(poses, settings) ==
  IF poses = <<>>
  THEN [slouchLevel |-> 0, shoulderAlignment |-> 0, criticalPoints |-> <<>>,
        isGoodPosture |-> FALSE, feedback |-> "No person detected"]
  ELSE IF \E j \in {"left_shoulder", "right_shoulder"} : ~poses[1][j].found
  THEN [slouchLevel |-> 0, shoulderAlignment |-> 0, criticalPoints |-> <<>>,
        isGoodPosture |-> FALSE, feedback |-> "Cannot detect key body points"]
  ELSE Classify(poses[1], CurrentSettings(settings))

\* analyzePosture whose shoulder message names the side with the larger y.
analyzePostureNamesLowerSide(poses, settings) ==
  IF poses = <<>>
  THEN [slouchLevel |-> 0, shoulderAlignment |-> 0, criticalPoints |-> <<>>,
        isGoodPosture |-> FALSE, feedback |-> "No person detected"]
  ELSE IF \E j \in Joints : ~poses[1][j].found
  THEN [slouchLevel |-> 0, shoulderAlignment |-> 0, criticalPoints |-> <<>>,
        isGoodPosture |-> FALSE, feedback |-> "Cannot detect key body points"]
  ELSE [Classify(poses[1], CurrentSettings(settings)) EXCEPT
          !.feedback =
            IF @ = "Your left shoulder is higher. Try to level your shoulders"
            THEN "Your right shoulder is higher. Try to level your shoulders"
            ELSE IF @ = "Your right shoulder is higher. Try to level your shoulders"
            THEN "Your left shoulder is higher. Try to level your shoulders"
            ELSE @]

\* analyzePosture(poses, settings)
analyzePosture(poses, settings) ==
  IF poses = <<>>
  THEN [slouchLevel |-> 0, shoulderAlignment |-> 0, criticalPoints |-> <<>>,
        isGoodPosture |-> FALSE, feedback |-> "No person detected"]
  ELSE IF \E j \in Joints : ~poses[1][j].found
  THEN [slouchLevel |-> 0, shoulderAlignment |-> 0, criticalPoints |-> <<>>,
        isGoodPosture |-> FALSE, feedback |-> "Cannot detect key body points"]
  ELSE Classify(poses[1], CurrentSettings(settings))

\* A call of analyzePosture; it changes nothing of the service.
Analyze(poses, settings) ==
  /\ analyzeCall' =
       [poses |-> poses, settings |-> settings,
        calibrated |-> calibrationData # <<>>,
        expired |-> now - calibrationTimestamp > CALIBRATION_EXPIRY_MS,
        currentSettings |-> CurrentSettings(settings),
        result |-> analyzePosture(poses, settings)]
  /\ UNCHANGED <<calibrationData, calibrationTimestamp, localStorage, calibrateCall,
                 calibrations, tampered, loadOutcome, gateVars, trackerVars, schedVars, appVars>>

\* The poses the store specification captures: the level pose, a pose at the
\* limits validation accepts, a pose with an ear aside of its shoulder, and a
\* pose validation rejects.
StorePosesInputs ==
  {<<>>, <<BasePose>>,
   <<[BasePose EXCEPT !["right_shoulder"].y = 230, !["right_ear"].y = 120]>>,
   <<[BasePose EXCEPT !["left_ear"].x = 130]>>,
   <<[BasePose EXCEPT !["nose"].found = FALSE]>>}

InitStore == InitService({"granted"}) /\ InitCameraFeed /\ InitPostureDetection /\ InitAppState

NextStore ==
  \/ \E poses \in StorePosesInputs, writes \in 0..2 : Calibrate(poses, writes)
  \/ clearCalibrationData
  \/ Reload
  \/ CorruptStorage
  \/ \E steps \in {1, CALIBRATION_EXPIRY_MS} : AdvanceStoreClock(steps)
  \/ \E poses \in StorePosesInputs : Analyze(poses, <<>>)

SpecStore == InitStore /\ [][NextStore]_vars

\* The poses and settings the analysis specification draws from: no pose, the
\* level pose changed in one respect (a joint missing, a low score, a shoulder or
\* an ear lower, the nose aside), poses around the default shoulder threshold,
\* a pose with each ear level with its shoulder (slouch angle 0), a pose with
\* the left shoulder 40 px higher and one with the right shoulder 40 px higher.
\* The poses a calibration may have captured are analysed as well.
\* The settings include a slouch threshold of 42, two thirds of the slouch level
\* of the level pose.
ShoulderTiltPose ==
  [BasePose EXCEPT !["left_shoulder"] = Keypoint(250, 180),
                   !["right_shoulder"] = Keypoint(350, 220)]

LevelEarPose ==
  [BasePose EXCEPT !["left_ear"] = Keypoint(150, 200), !["right_ear"] = Keypoint(350, 200)]

AnalyzePosesInputs ==
  {<<>>, <<ShoulderTiltPose>>, <<LevelEarPose>>}
    \cup {<<Deviate(BasePose, d)>> : d \in Deviations}
    \cup {<<[BasePose EXCEPT !["right_shoulder"].y = y]>> : y \in {214, 215, 216}}
    \cup {<<[BasePose EXCEPT !["nose"].y = 110]>>}
    \cup {<<[BasePose EXCEPT !["left_shoulder"].y = 240]>>}
    \cup StorePosesInputs

SettingsInputs ==
  {<<>>, [slouchThreshold |-> 0], [slouchThreshold |-> 42], [slouchThreshold |-> 100],
   [shoulderAlignmentThreshold |-> 40],
   [shoulderAlignmentThreshold |-> 30, slouchThreshold |-> 100]}

InitAnalysis == InitService({"granted"}) /\ InitCameraFeed /\ InitPostureDetection /\ InitAppState

NextAnalysis ==
  \/ \E poses \in AnalyzePosesInputs, settings \in SettingsInputs : Analyze(poses, settings)
  \/ \E poses \in StorePosesInputs : Calibrate(poses, 2)
  \/ clearCalibrationData

SpecAnalysis == InitAnalysis /\ [][NextAnalysis]_vars

\* ----------------------------------------------------------------- frames
\* The tracker fed with the poses detectPose returns instead of their verdict:
\* nothing detected, a pose without its nose, a good pose (level, each ear level
\* with its shoulder) and a bad one (the level pose, whose slouch level is 63).
FramePosesInputs ==
  {<<>>, <<[BasePose EXCEPT !["nose"] = MissingKeypoint]>>, <<LevelEarPose>>, <<BasePose>>}

\* setPostureStatus(status) and the duration effect that follows a change.
setPostureStatus(status) ==
  /\ postureStatus' = status
  /\ IF status # postureStatus
     THEN DurationEffect(status)
     ELSE UNCHANGED <<badPostureStartTimeRef, badPostureDuration, intervalDue, tierFired>>
  /\ wasReset' = (wasReset \/ (postureStatus = "bad" /\ status = "good"))

\* processFrame that leaves the status alone when analyzePosture classified
\* nothing.
DetectedFrameSkipsUnclassified(poses) ==
  LET result == analyzePosture(poses, <<>>) IN
    /\ isWebcamOn
    /\ analyzeCall' =
         [poses |-> poses, settings |-> <<>>,
          calibrated |-> calibrationData # <<>>,
          expired |-> now - calibrationTimestamp > CALIBRATION_EXPIRY_MS,
          currentSettings |-> CurrentSettings(<<>>),
          result |-> result]
    /\ IF result.criticalPoints = <<>>
       THEN UNCHANGED <<postureStatus, badPostureStartTimeRef, badPostureDuration,
                        intervalDue, tierFired, wasReset>>
       ELSE setPostureStatus(IF result.isGoodPosture THEN "good" ELSE "bad")
    /\ UNCHANGED <<gateVars, isWebcamOn, calibrationData, calibrationTimestamp, localStorage,
                   calibrateCall, calibrations, tampered, loadOutcome, schedVars, appVars>>

\* processFrame from the poses detectPose resolved with:
\* result = analyzePosture(poses), setPostureStatus(result.isGoodPosture ? GOOD : BAD).
DetectedFrame(poses) ==
  LET result == analyzePosture(poses, <<>>) IN
    /\ isWebcamOn
    /\ analyzeCall' =
         [poses |-> poses, settings |-> <<>>,
          calibrated |-> calibrationData # <<>>,
          expired |-> now - calibrationTimestamp > CALIBRATION_EXPIRY_MS,
          currentSettings |-> CurrentSettings(<<>>),
          result |-> result]
    /\ setPostureStatus(IF result.isGoodPosture THEN "good" ELSE "bad")
    /\ UNCHANGED <<gateVars, isWebcamOn, calibrationData, calibrationTimestamp, localStorage,
                   calibrateCall, calibrations, tampered, loadOutcome, schedVars, appVars>>

\* The webcam is switched on and stays on, and every Notification is created.
InitFrames == InitTracker

NextFrames ==
  \/ \E poses \in FramePosesInputs : DetectedFrame(poses)
  \/ IntervalTick(TRUE)
  \/ ~isWebcamOn /\ ToggleWebcam
  \/ AdvanceTrackerClock

SpecFrames == InitFrames /\ [][NextFrames]_vars

\* -------------------------------------------------------------- scheduler
\* processFrame is a useCallback over isWebcamOn, modelReady and isTabVisible:
\* each run and each requested animation frame keeps the values its callback
\* closed over.
Closure(webcamOn, tabVisible, ready) ==
  [isWebcamOn |-> webcamOn, isTabVisible |-> tabVisible, modelReady |-> ready]

Remove(seq, i) == SubSeq(seq, 1, i - 1) \o SubSeq(seq, i + 1, Len(seq))

\* processFrame without its test of isTabVisible.
processFrameStartNoVisibilityTest(c, video) ==
  IF video /\ c.modelReady THEN "await"
  ELSE IF c.isWebcamOn THEN "request"
  ELSE "return"

\* How a call of processFrame with closure c goes, video = webcamRef.current?.video
\* is there: "return" (tab not visible, or nothing to do and webcam off), "await"
\* (the pipeline starts and awaits detectPose), "request" (the pipeline is skipped
\* and the next animation frame requested).
processFrameStart(c, video) ==
  IF ~c.isTabVisible THEN "return"
  ELSE IF video /\ c.modelReady THEN "await"
  ELSE IF c.isWebcamOn THEN "request"
  ELSE "return"

\* A call of processFrame with closure c when frames are the pending requests
\* and ref the position animationFrameRef points to.
processFrame(c, video, frames, ref) ==
  LET start == processFrameStart(c, video) IN
    /\ start = "await" => Len(inFlight) < MaxRuns
    /\ start = "request" => Len(frames) < MaxPendingFrames
    /\ inFlight' = IF start = "await" THEN Append(inFlight, c) ELSE inFlight
    /\ pendingFrames' = IF start = "request" THEN Append(frames, c) ELSE frames
    /\ animationFrameRef' = IF start = "request" THEN Len(frames) + 1 ELSE ref

\* cancelAnimationFrame(animationFrameRef.current)
CancelledFrames == IF animationFrameRef = 0 THEN pendingFrames
                   ELSE Remove(pendingFrames, animationFrameRef)

\* The start/stop effect, re-run when isWebcamOn or processFrame (so modelReady
\* or isTabVisible) has changed, c the new values: the cleanup cancels the
\* request animationFrameRef holds, then the body runs.
StartStopEffect(c) ==
  IF c.isWebcamOn
  THEN /\ processFrame(c, TRUE, CancelledFrames, 0)
       /\ UNCHANGED <<postureStatus, badPostureDuration, badPostureStartTimeRef,
                      intervalDue, tierFired>>
  ELSE /\ pendingFrames' = CancelledFrames
       /\ animationFrameRef' = 0
       /\ UNCHANGED inFlight
       /\ postureStatus' = "unknown"
       /\ IF postureStatus # "unknown"
          THEN DurationEffect("unknown")
          ELSE /\ badPostureDuration' = 0
               /\ badPostureStartTimeRef' = Null
               /\ UNCHANGED <<intervalDue, tierFired>>

\* toggleWebcam: setIsWebcamOn(prev => !prev), then the effect.
ToggleWebcamSwitch ==
  /\ isWebcamOn' = ~isWebcamOn
  /\ StartStopEffect(Closure(~isWebcamOn, isTabVisible, modelReady))
  /\ lastEvent' = "toggleWebcam"
  /\ UNCHANGED <<gateVars, calVars, appVars, wasReset, isTabVisible, modelReady>>

\* A visibility callback that sets the state without the start/stop effect
\* being run again.
VisibilityChangeWithoutEffect ==
  /\ isTabVisible' = ~isTabVisible
  /\ lastEvent' = "visibilitychange"
  /\ UNCHANGED <<gateVars, calVars, appVars, trackerVars, modelReady, inFlight, pendingFrames,
                 animationFrameRef>>

\* The visibility callback: setIsTabVisible(isVisible), then the effect. The
\* callback's own processFrame() call is never made: the callback was created at
\* mount and tests the isWebcamOn of that render, which is false.
VisibilityChange ==
  /\ isTabVisible' = ~isTabVisible
  /\ StartStopEffect(Closure(isWebcamOn, ~isTabVisible, modelReady))
  /\ lastEvent' = "visibilitychange"
  /\ UNCHANGED <<gateVars, calVars, appVars, wasReset, isWebcamOn, modelReady>>

\* loadModel() resolves: setModelReady(true), then the effect.
ModelLoaded ==
  /\ ~modelReady
  /\ modelReady' = TRUE
  /\ StartStopEffect(Closure(isWebcamOn, isTabVisible, TRUE))
  /\ lastEvent' = "modelReady"
  /\ UNCHANGED <<gateVars, calVars, appVars, wasReset, isWebcamOn, isTabVisible>>

\* The browser runs a requested animation frame (only while the page is visible).
AnimationFrame(i) ==
  /\ isTabVisible
  /\ i \in DOMAIN pendingFrames
  /\ processFrame(pendingFrames[i], isWebcamOn, Remove(pendingFrames, i),
                  IF animationFrameRef = i THEN 0
                  ELSE IF animationFrameRef > i THEN animationFrameRef - 1
                  ELSE animationFrameRef)
  /\ lastEvent' = "animationFrame"
  /\ UNCHANGED <<gateVars, calVars, appVars, trackerVars, isTabVisible, modelReady>>

\* detectPose of a run in flight settles; the run goes on after its await:
\* setPostureStatus (with the duration effect when the status changes) unless
\* detectPose threw, then requestAnimationFrame if its closure's isWebcamOn.
DetectPoseSettles(i, outcome) ==
  /\ i \in DOMAIN inFlight
  /\ inFlight' = Remove(inFlight, i)
  /\ IF outcome = "throws"
     THEN UNCHANGED <<postureStatus, badPostureDuration, badPostureStartTimeRef,
                      intervalDue, tierFired>>
     ELSE /\ postureStatus' = outcome
          /\ IF outcome # postureStatus
             THEN DurationEffect(outcome)
             ELSE UNCHANGED <<badPostureStartTimeRef, badPostureDuration, intervalDue,
                              tierFired>>
  /\ IF inFlight[i].isWebcamOn
     THEN /\ Len(pendingFrames) < MaxPendingFrames
          /\ pendingFrames' = Append(pendingFrames, inFlight[i])
          /\ animationFrameRef' = Len(pendingFrames) + 1
     ELSE UNCHANGED <<pendingFrames, animationFrameRef>>
  /\ lastEvent' = "detectPose"
  /\ UNCHANGED <<gateVars, calVars, appVars, wasReset, isWebcamOn, isTabVisible, modelReady>>

\* Date.now() moves on.
AdvanceSchedulerClock ==
  /\ now < StartTime + SchedulerHorizon
  /\ now' = now + 1
  /\ UNCHANGED <<permission, promptOpen, lastNotificationTime, notificationCooldown,
                 notificationEnabled, channel, alerts, steady, heard, settingChanges, notifyCall,
                 trackerVars, calVars, schedVars, appVars>>

InitScheduler == InitService({"granted"}) /\ InitCameraFeed /\ InitPostureDetection /\ InitAppState

NextScheduler ==
  \/ ToggleWebcamSwitch
  \/ VisibilityChange
  \/ ModelLoaded
  \/ \E i \in 1..MaxPendingFrames : AnimationFrame(i)
  \/ \E i \in 1..MaxRuns, outcome \in {"good", "bad", "throws"} : DetectPoseSettles(i, outcome)
  \/ AdvanceSchedulerClock

SpecScheduler == InitScheduler /\ [][NextScheduler]_vars

\* -------------------------------------------------------------------- app
\* App, CameraFeed's model-load effect, CalibrationModal and the model fields of
\* the service. React runs the effects of a render (children first) and the
\* continuations of promises already resolved before the next event, so events
\* wait until no effect is pending.
\* What the start/stop effect of CameraFeed assigns.
loopVars == <<inFlight, pendingFrames, animationFrameRef, postureStatus, badPostureDuration,
              badPostureStartTimeRef, intervalDue, tierFired>>

\* setShowCalibration(show) and setIsCalibrated(cal): when a value changes App
\* renders, CameraFeed gets a new onCalibrationNeeded (its effect runs again),
\* and the modal's effect runs when isOpen has become true. cfPending and
\* modalPending are the effects pending otherwise.
AppState(show, cal, cfPending, modalPending) ==
  /\ showCalibration' = show
  /\ isCalibrated' = cal
  /\ cameraFeedEffectPending' =
       (cfPending \/ show # showCalibration \/ cal # isCalibrated)
  /\ modalEffectPending' = (modalPending \/ (show /\ ~showCalibration))
  /\ capturedSinceOpen' = IF show /\ ~showCalibration THEN FALSE ELSE capturedSinceOpen

\* What the caller does after its await of loadModel():
\* CameraFeed: setModelReady(true), the start/stop effect when that changes
\*   modelReady, onCalibrationNeeded() if isCalibrationNeeded(); nothing but an
\*   error message when the load was rejected;
\* App.checkCalibration (which catches a rejection): setIsCalibrated(!needs),
\*   setShowCalibration(true) if needs;
\* CalibrationModal.initCamera: getUserMedia, no state of the model.
AfterLoad(caller, resolved, cfPending, modalPending) ==
  /\ startupCheck' = IF caller = "App" THEN "done" ELSE startupCheck
  /\ IF caller = "CameraFeed" /\ resolved
     THEN /\ modelReady' = TRUE
          /\ IF modelReady THEN UNCHANGED loopVars
             ELSE StartStopEffect(Closure(isWebcamOn, isTabVisible, TRUE))
          /\ AppState(showCalibration \/ isCalibrationNeeded, isCalibrated,
                      cfPending, modalPending)
     ELSE IF caller = "App"
     THEN /\ AppState(showCalibration \/ isCalibrationNeeded, ~isCalibrationNeeded,
                      cfPending, modalPending)
          /\ UNCHANGED <<modelReady, loopVars>>
     ELSE /\ AppState(showCalibration, isCalibrated, cfPending, modalPending)
          /\ UNCHANGED <<modelReady, loopVars>>

\* loadModel() called by caller: it returns at once, a resolved promise, when a
\* load is under way or done; otherwise it sets modelLoading and awaits
\* createDetector.
loadModel(caller, cfPending, modalPending) ==
  IF modelLoading \/ model # "none"
  THEN /\ loadModelCall' = [caller |-> caller, outcome |-> "resolved",
                            loaded |-> model # "none"]
       /\ AfterLoad(caller, TRUE, cfPending, modalPending)
       /\ UNCHANGED <<modelLoading, model, loader, detectorsCreated>>
  ELSE /\ modelLoading' = TRUE
       /\ loader' = caller
       /\ startupCheck' = IF caller = "App" THEN "awaiting" ELSE startupCheck
       /\ AppState(showCalibration, isCalibrated, cfPending, modalPending)
       /\ UNCHANGED <<model, detectorsCreated, loadModelCall, modelReady, loopVars>>

\* Nothing of React is pending: events and settled promises are handled.
Quiet == ~cameraFeedEffectPending /\ ~modalEffectPending /\ startupCheck # "todo"

\* CameraFeed's mount effect, which runs again after every render of App.
CameraFeedEffect ==
  /\ cameraFeedEffectPending
  /\ loadModel("CameraFeed", FALSE, modalEffectPending)
  /\ lastEvent' = "mount"
  /\ UNCHANGED <<gateVars, calVars, isWebcamOn, wasReset, isTabVisible,
                 step, countdown, calibrating>>

\* CalibrationModal's effect when isOpen has become true: initCamera().
ModalOpenEffect ==
  /\ ~cameraFeedEffectPending
  /\ modalEffectPending
  /\ IF model = "none"
     THEN loadModel("CalibrationModal", FALSE, FALSE)
     ELSE /\ AppState(showCalibration, isCalibrated, FALSE, FALSE)
          /\ UNCHANGED <<startupCheck, modelLoading, model, loader, detectorsCreated,
                         loadModelCall, modelReady, loopVars>>
  /\ UNCHANGED <<gateVars, calVars, isWebcamOn, wasReset, isTabVisible, lastEvent,
                 step, countdown, calibrating>>

\* App's mount effect: checkCalibration().
StartupCheck ==
  /\ ~cameraFeedEffectPending
  /\ ~modalEffectPending
  /\ startupCheck = "todo"
  /\ IF model = "none"
     THEN loadModel("App", FALSE, FALSE)
     ELSE /\ AfterLoad("App", TRUE, FALSE, FALSE)
          /\ UNCHANGED <<modelLoading, model, loader, detectorsCreated, loadModelCall>>
  /\ UNCHANGED <<gateVars, calVars, isWebcamOn, wasReset, isTabVisible, lastEvent,
                 step, countdown, calibrating>>

\* createDetector of the load under way settles: modelLoading is reset, the
\* detector is stored when there is one, and the loader's await ends.
CreateDetectorSettles(ok) ==
  /\ Quiet
  /\ modelLoading
  /\ modelLoading' = FALSE
  /\ model' = IF ok THEN "detector" ELSE model
  /\ detectorsCreated' = IF ok THEN detectorsCreated + 1 ELSE detectorsCreated
  /\ loader' = "none"
  /\ loadModelCall' = [caller |-> loader,
                       outcome |-> IF ok THEN "resolved" ELSE "rejected",
                       loaded |-> ok \/ model # "none"]
  /\ AfterLoad(loader, ok, FALSE, FALSE)
  /\ UNCHANGED <<gateVars, calVars, isWebcamOn, wasReset, isTabVisible, lastEvent,
                 step, countdown, calibrating>>

\* The frame of the actions of the modal and the App buttons.
modalFrame == <<gateVars, trackerVars, isTabVisible, modelReady, inFlight, pendingFrames,
                animationFrameRef, lastEvent, startupCheck, modelLoading, model, loader,
                detectorsCreated, loadModelCall>>

\* startCalibration: the Start Calibration button of step 1.
startCalibration ==
  /\ Quiet
  /\ showCalibration
  /\ step = 1
  /\ step' = 2
  /\ countdown' = 5
  /\ UNCHANGED <<modalFrame, calVars, showCalibration, isCalibrated, cameraFeedEffectPending,
                 modalEffectPending, calibrating, capturedSinceOpen>>

\* The countdown effect's timer. At 0 the effect calls performCalibration, which
\* awaits calibrate(); without a detector detectPose throws at once, calibrate
\* returns false and the modal is back at step 1.
CountdownTick ==
  /\ Quiet
  /\ step = 2
  /\ countdown > 0
  /\ countdown' = countdown - 1
  /\ IF countdown = 1
     THEN IF model = "none"
          THEN step' = 1 /\ UNCHANGED calibrating
          ELSE calibrating' = TRUE /\ UNCHANGED step
     ELSE UNCHANGED <<step, calibrating>>
  /\ UNCHANGED <<modalFrame, calVars, showCalibration, isCalibrated, cameraFeedEffectPending,
                 modalEffectPending, capturedSinceOpen>>

\* performCalibration after its await: calibrate() has detected poses, validated
\* and saved (writes of the two localStorage writes went through).
CaptureSettles(poses, writes) ==
  /\ Quiet
  /\ calibrating
  /\ calibrate(poses, writes)
  /\ step' = IF calibrateCall'.result = "true" THEN 3 ELSE 1
  /\ calibrating' = FALSE
  /\ capturedSinceOpen' = (capturedSinceOpen \/ calibrateCall'.result = "true")
  /\ UNCHANGED <<modalFrame, calibrations, tampered, loadOutcome, analyzeCall,
                 showCalibration, isCalibrated, cameraFeedEffectPending, modalEffectPending,
                 countdown>>

\* The Cancel button of step 1: onClose.
CancelCalibration ==
  /\ Quiet
  /\ showCalibration
  /\ step = 1
  /\ AppState(FALSE, isCalibrated, FALSE, FALSE)
  /\ UNCHANGED <<modalFrame, calVars, step, countdown, calibrating>>

\* handleComplete, the Continue button of step 3: onCalibrationComplete()
\* (setShowCalibration(false), setIsCalibrated(true)) and onClose().
handleComplete ==
  /\ Quiet
  /\ showCalibration
  /\ step = 3
  /\ AppState(FALSE, TRUE, FALSE, FALSE)
  /\ UNCHANGED <<modalFrame, calVars, step, countdown, calibrating>>

\* The Recalibrate Posture button of the settings panel (shown while
\* isCalibrated; the open modal covers the page): clearCalibrationData(),
\* setIsCalibrated(false), setShowCalibration(true), and a 'stopWebcam' event
\* that nothing listens to.
Recalibrate ==
  /\ Quiet
  /\ isCalibrated
  /\ ~showCalibration
  /\ calibrationData' = <<>>
  /\ calibrationTimestamp' = 0
  /\ localStorage' = [postureCalibrationData |-> <<>>, postureCalibrationTimestamp |-> <<>>]
  /\ AppState(TRUE, FALSE, FALSE, FALSE)
  /\ UNCHANGED <<modalFrame, calibrateCall, calibrations, tampered, loadOutcome, analyzeCall,
                 step, countdown, calibrating>>

\* The page is opened with no profile in localStorage or with one saved less
\* than a day ago, which the service's constructor has loaded.
InitApp ==
  /\ InitService({"granted"})
  /\ InitCameraFeed
  /\ InitAppState
  /\ \E stored \in BOOLEAN :
       /\ calibrationData = IF stored THEN <<CalibrationDataOf(BasePose)>> ELSE <<>>
       /\ calibrationTimestamp = IF stored THEN StartTime - 1 ELSE 0
       /\ localStorage =
            IF stored
            THEN [postureCalibrationData |-> <<JsonStringify(CalibrationDataOf(BasePose))>>,
                  postureCalibrationTimestamp |-> <<NumberToString(StartTime - 1)>>]
            ELSE [postureCalibrationData |-> <<>>, postureCalibrationTimestamp |-> <<>>]
       /\ loadOutcome = IF stored THEN "loaded" ELSE "absent"
  /\ calibrateCall = NoCalibrateCall
  /\ calibrations = 0
  /\ tampered = FALSE
  /\ analyzeCall = NoAnalyzeCall

\* The webcam button is not reachable under the open modal; a run whose
\* detectPose finds no detector throws.
NextApp ==
  \/ CameraFeedEffect
  \/ ModalOpenEffect
  \/ StartupCheck
  \/ \E ok \in BOOLEAN : CreateDetectorSettles(ok)
  \/ startCalibration
  \/ CountdownTick
  \/ \E poses \in StorePosesInputs, writes \in 0..2 : CaptureSettles(poses, writes)
  \/ CancelCalibration
  \/ handleComplete
  \/ Recalibrate
  \/ Quiet /\ ~showCalibration /\ ToggleWebcamSwitch
  \/ \E i \in 1..MaxPendingFrames : Quiet /\ AnimationFrame(i)
  \/ \E i \in 1..MaxRuns, outcome \in {"good", "bad", "throws"} :
       /\ Quiet
       /\ model = "none" => outcome = "throws"
       /\ DetectPoseSettles(i, outcome)

SpecApp == InitApp /\ [][NextApp]_vars

\* ------------------------------------------------------------ gate claims
Shown(i) == alerts[i].shown

\* C1: with a fixed cooldown and no sibling timestamp taken since its previous
\* alert, an alert of a tab is at least cooldown after every earlier alert the
\* same tab showed.
C1_SameTabAlertsCooldownApart ==
  \A j \in DOMAIN alerts :
    (Shown(j) /\ alerts[j].steady) =>
      \A i \in 1..(j - 1) :
        (Shown(i) /\ alerts[i].tab = alerts[j].tab) =>
          alerts[j].time - alerts[i].time >= alerts[j].cooldown

\* C1 witness: one tab has shown two alerts, the second in a steady stretch.
C1_Witness ==
  \E j \in DOMAIN alerts : \E i \in 1..(j - 1) :
    /\ Shown(i) /\ Shown(j) /\ alerts[j].steady
    /\ alerts[i].tab = alerts[j].tab

\* C2 (as claimed): alerts shown by two different tabs are never less than the
\* cooldown apart.
C2_NoTwoTabsWithinCooldown ==
  \A j \in DOMAIN alerts : \A i \in 1..(j - 1) :
    (Shown(i) /\ Shown(j) /\ alerts[i].tab # alerts[j].tab) =>
      alerts[j].time - alerts[i].time >= alerts[j].cooldown

\* C3 (as claimed): a tab that has received a sibling's broadcast with timestamp
\* t passes no fire before t + cooldown.
C3_SuppressedAfterSiblingBroadcast ==
  \A j \in DOMAIN alerts :
    alerts[j].heard # 0 => alerts[j].time >= alerts[j].heard + alerts[j].cooldown

\* C4 (as claimed): lastNotificationTime of a tab never decreases.
C4_LastFireAtNeverDecreases ==
  [][\A t \in Tabs : lastNotificationTime'[t] >= lastNotificationTime[t]]_vars

\* C5: a step that delivers a message adds no alert; a message carrying the
\* receiver's own tabId changes nothing; and every alert added comes from a call
\* made with notifications enabled, the permission granted and the cooldown over.
C5_AlertOnlyFromPassingFire ==
  [][/\ (\E r \in Tabs, s \in Tabs : Len(channel'[r][s]) < Len(channel[r][s]))
          => alerts' = alerts
     /\ \A r \in Tabs, type \in OtherTypes :
          OtherMessage(r, r, type) => UNCHANGED vars
     /\ alerts' # alerts =>
          /\ Len(alerts') = Len(alerts) + 1
          /\ SubSeq(alerts', 1, Len(alerts)) = alerts
          /\ LET a == alerts'[Len(alerts')] IN
               /\ notificationEnabled[a.tab]
               /\ permission = "granted"
               /\ a.time = now
               /\ now - lastNotificationTime[a.tab] >= notificationCooldown[a.tab]
    ]_vars

\* C5 witness: a tab has taken a sibling's broadcast and has created no
\* notification, while the sibling's alert was shown.
C5_Witness ==
  \E r \in Tabs :
    /\ heard[r] # 0
    /\ \A i \in DOMAIN alerts : alerts[i].tab # r
    /\ \E i \in DOMAIN alerts : Shown(i)

\* --------------------------------------------------------- tracker claims
ObservedSeconds == Seconds(badPostureDuration)   \* whole seconds the last tick measured

\* C6 (as claimed): in a bad-posture session the tier-1 alert has been fired
\* exactly once as soon as a tick has measured 5 s or more, and not before.
C6_Tier1OnceAtFiveSeconds ==
  postureStatus = "bad" =>
    Len(tierFired[1]) = (IF AtLeastSeconds(badPostureDuration, 5) THEN 1 ELSE 0)

\* C7 (as claimed): in a bad-posture session the tier-2 alert has been fired
\* once for every 10 s boundary up to 50 s that the measured duration has reached.
C7_Tier2AtEachTenSeconds ==
  postureStatus = "bad" => Len(tierFired[2]) = Min(5, ObservedSeconds \div 10)

\* C8 (as claimed): in a bad-posture session the tier-3 alert has been fired
\* once for every 30 s boundary from 60 s on that the measured duration has reached.
C8_Tier3AtEachThirtySeconds ==
  postureStatus = "bad" =>
    Len(tierFired[3]) =
      (IF AtLeastSeconds(badPostureDuration, 60) THEN (ObservedSeconds - 30) \div 30 ELSE 0)

\* The tier boundaries a duration of d whole seconds has reached: 5 s, then
\* 10 .. 50 s, then 60, 90, 120 s and so on.
BoundariesReached(d) ==
  (IF d >= 5 THEN 1 ELSE 0) + Min(5, d \div 10) + (IF d >= 60 THEN (d - 30) \div 30 ELSE 0)

\* C30 (as claimed): in a bad-posture session, whatever the tick times, the
\* alerts fired so far are one for each tier boundary the measured duration has
\* reached, and no tier has fired twice in the same second.
C30_TiersEdgeTriggered ==
  postureStatus = "bad" =>
    /\ Len(tierFired[1]) + Len(tierFired[2]) + Len(tierFired[3])
         = BoundariesReached(ObservedSeconds)
    /\ \A k \in Tiers : \A i, j \in DOMAIN tierFired[k] :
         i # j => tierFired[k][i] # tierFired[k][j]

\* C9: a good frame during a bad-posture session clears the start ref, the
\* duration and the interval in the same step; a session that starts takes the
\* current time as its start and a duration of 0, and the duration shown is
\* never more than the time since that start.
C9_GoodFrameResetsTracker ==
  [][/\ postureStatus' # "bad" =>
          /\ badPostureStartTimeRef' = Null
          /\ badPostureDuration' = 0
          /\ intervalDue' = Null
     /\ (postureStatus # "bad" /\ postureStatus' = "bad") =>
          /\ badPostureStartTimeRef' = now
          /\ badPostureDuration' = 0
     /\ postureStatus' = "bad" =>
          /\ badPostureStartTimeRef' # Null
          /\ badPostureDuration' <= now' - badPostureStartTimeRef'
    ]_vars

\* C9 witness: after a good frame ended one session, a new session is under
\* way and a tick has measured its duration.
C9_Witness ==
  /\ wasReset
  /\ postureStatus = "bad"
  /\ badPostureDuration > 0

\* ----------------------------------------------------- calibration claims
\* What the claim requires of a pose.
ClaimedCapturable(poses) ==
  /\ poses # <<>>
  /\ \A j \in Joints : poses[1][j].found /\ poses[1][j].score >= minConfidence
  /\ Abs(poses[1]["left_shoulder"].y - poses[1]["right_shoulder"].y) <= 30
  /\ Abs(poses[1]["left_ear"].y - poses[1]["right_ear"].y) <= 20
  /\ poses[1]["nose"].x >= Min(poses[1]["left_ear"].x, poses[1]["right_ear"].x)
  /\ poses[1]["nose"].x <= Max(poses[1]["left_ear"].x, poses[1]["right_ear"].x)

\* C10 (as claimed): with localStorage accepting both writes, calibrate returns
\* true exactly for the poses with all five joints, every score >= 0.4, shoulder
\* difference <= 30, ear difference <= 20 and the nose between the ears.
C10_CaptureIffValidPose ==
  (calibrateCall.result # "none" /\ calibrateCall.writes = 2) =>
    (calibrateCall.result = "true" <=> ClaimedCapturable(calibrateCall.poses))

\* C11 (as claimed): a calibrate() call that returns false leaves the profile in
\* memory, its timestamp and both persisted keys as they were.
C11_FailedCaptureChangesNothing ==
  [][(calibrations' # calibrations /\ calibrateCall'.result = "false") =>
       UNCHANGED <<calibrationData, calibrationTimestamp, localStorage>>]_vars

\* C12 (as claimed): as long as only the service writes the keys, the record
\* and its timestamp are both persisted or both missing, and a profile in memory
\* comes with the time of its capture.
C12_ProfileAbsentOrWhole ==
  ~tampered =>
    /\ (localStorage.postureCalibrationData = <<>>)
         <=> (localStorage.postureCalibrationTimestamp = <<>>)
    /\ calibrationData # <<>> => calibrationTimestamp >= StartTime

C14_ExpiredProfileNotUsed ==
  (analyzeCall.calibrated /\ analyzeCall.expired) =>
    analyzeCall.currentSettings = BaseSettings(analyzeCall.settings)

\* C21: when a new service instance loads the record a successful capture
\* wrote, the settings derived from the loaded profile equal, for every base
\* settings, those derived from the profile the capture built.
C21_ReloadedProfileDerivesSame ==
  [][(/\ Reload
      /\ calibrateCall.result = "true"
      /\ localStorage.postureCalibrationData # <<>>
      /\ localStorage.postureCalibrationData # <<NotJson>>
      /\ localStorage.postureCalibrationTimestamp # <<>>) =>
       /\ calibrationData' # <<>>
       /\ \A settings \in SettingsInputs :
            SettingsFromCalibration(calibrationData'[1], BaseSettings(settings))
              = SettingsFromCalibration(CalibrationDataOf(calibrateCall.poses[1]),
                                        BaseSettings(settings))]_vars

\* C21 witness: the only capture so far succeeded with an ear angle that is
\* not a whole number of degrees, and a new instance has loaded its record.
C21_Witness ==
  /\ calibrations = 1
  /\ calibrateCall.result = "true"
  /\ loadOutcome = "loaded"
  /\ calibrationData = <<CalibrationDataOf(calibrateCall.poses[1])>>
  /\ calibrationData[1].referenceLeftSlouchAngle % 100 # 0

\* C22: calibration is needed exactly when no profile is present or the profile
\* is older than 24 hours; a profile exactly 24 hours old does not need it, and
\* after clearCalibrationData it is needed.
C22_NeededIffAbsentOrOlderThanExpiry ==
  /\ [](isCalibrationNeeded <=>
          \/ calibrationData = <<>>
          \/ now - calibrationTimestamp >= CALIBRATION_EXPIRY_MS + 1)
  /\ [][clearCalibrationData => isCalibrationNeeded']_vars

\* C22 witness: a profile exactly 24 hours old is present and calibration is
\* not needed.
C22_Witness ==
  /\ calibrationData # <<>>
  /\ now - calibrationTimestamp = CALIBRATION_EXPIRY_MS
  /\ ~isCalibrationNeeded

\* C29 (as claimed): when the page is loaded again, localStorage holds nothing
\* the service wrote in the session before.
C29_NothingStoredBetweenSessions ==
  [][(Reload /\ ~tampered) =>
       /\ localStorage.postureCalibrationData = <<>>
       /\ localStorage.postureCalibrationTimestamp = <<>>]_vars

\* -------------------------------------------------------- analysis claims
Analyzed == analyzeCall.result.feedback # "none"
IncompletePose(poses) == poses # <<>> /\ \E j \in Joints : ~poses[1][j].found
CompletePose(poses) == poses # <<>> /\ \A j \in Joints : poses[1][j].found

\* v is x rounded up to a whole unit, for the x with x * den = num.
IsCeilOf(v, num, den) == v * den >= num /\ (v - 1) * den < num

\* C28: without a profile the derived settings are the base settings; with a
\* profile they are the base settings with the two thresholds replaced by
\*   max(ref * (1.5 + 10 / (ref + 5)), 0.7 * base shoulder threshold) and
\*   max(avg * (1.2 + 10 / (avg + 10)), 0.7 * base slouch threshold),
\* so neither is below 0.7 of its base value, and every other field is kept.
C28_DerivedSettings ==
  \A settings \in SettingsInputs :
    LET base == BaseSettings(settings)
        derived == generateSettingsFromCalibration(base)
    IN IF calibrationData = <<>> THEN derived = base
       ELSE
         LET ref == calibrationData[1].referenceShoulderAlignment
             sum == calibrationData[1].referenceLeftSlouchAngle
                      + calibrationData[1].referenceRightSlouchAngle
             shoulder == derived.shoulderAlignmentThreshold
             slouch == derived.slouchThreshold
             shoulderFloor == base.shoulderAlignmentThreshold * 7
             slouchFloor == base.slouchThreshold * 7
             Personal(v, num, den, floor) ==
               \/ IsCeilOf(v, num, den) /\ 10 * v >= floor
               \/ IsCeilOf(v, floor, 10) /\ v * den >= num
         IN /\ DOMAIN derived = DOMAIN base
            /\ \A k \in DOMAIN base \ {"shoulderAlignmentThreshold", "slouchThreshold"} :
                 derived[k] = base[k]
            /\ 10 * shoulder >= shoulderFloor
            /\ 10 * slouch >= slouchFloor
            \* 2000 * ref * (1.5 + 10 / (ref + 5)) = ref * (3000 * ref + 35000) / (ref + 5)
            /\ Personal(shoulder, ref * (3000 * ref + 35000), ref + 5, shoulderFloor)
            \* 2000 * avg * (1.2 + 10 / (avg + 10)), avg = sum / 200,
            \*   = 12 * sum + 20000 * sum / (sum + 2000)
            /\ Personal(slouch - 12 * sum, 20000 * sum, sum + 2000, slouchFloor - 120 * sum)

\* C28 witness: an analysis has classified with settings derived from a profile
\* whose shoulder threshold is the floor of 0.7 times the base value and whose
\* slouch threshold is above its floor.
C28_Witness ==
  /\ Analyzed
  /\ analyzeCall.calibrated
  /\ calibrationData # <<>>
  /\ analyzeCall.currentSettings
       = generateSettingsFromCalibration(BaseSettings(analyzeCall.settings))
  /\ 10 * analyzeCall.currentSettings.shoulderAlignmentThreshold
       < 7 * BaseSettings(analyzeCall.settings).shoulderAlignmentThreshold + 10
  /\ 10 * analyzeCall.currentSettings.slouchThreshold
       > 7 * BaseSettings(analyzeCall.settings).slouchThreshold + 10

\* C17: an analysis of no pose returns zeroed metrics, no critical points, bad
\* posture and "No person detected"; an analysis of a pose that lacks one of the
\* five joints returns bad posture and no critical points.
C17_NoPoseOrMissingJointIsBad ==
  Analyzed =>
    /\ analyzeCall.poses = <<>> =>
         analyzeCall.result =
           [slouchLevel |-> 0, shoulderAlignment |-> 0, criticalPoints |-> <<>>,
            isGoodPosture |-> FALSE, feedback |-> "No person detected"]
    /\ IncompletePose(analyzeCall.poses) =>
         /\ ~analyzeCall.result.isGoodPosture
         /\ analyzeCall.result.criticalPoints = <<>>

\* C17 witness: a pose with both shoulders but without an ear or the nose has
\* been analysed.
C17_Witness ==
  /\ Analyzed
  /\ IncompletePose(analyzeCall.poses)
  /\ analyzeCall.poses[1]["left_shoulder"].found
  /\ analyzeCall.poses[1]["right_shoulder"].found
  /\ analyzeCall.result.feedback = "Cannot detect key body points"

\* C18 (as claimed): the level pose with each ear above its shoulder, analysed
\* with the default thresholds and no calibration, has shoulderAlignment 0, a
\* slouchLevel below 20 and good posture.
C18_UprightPoseIsGood ==
  (Analyzed /\ analyzeCall.poses = <<BasePose>> /\ analyzeCall.settings = <<>>
     /\ ~analyzeCall.calibrated) =>
    /\ analyzeCall.result.shoulderAlignment = 0
    /\ analyzeCall.result.slouchLevel < Units(20)
    /\ analyzeCall.result.isGoodPosture

\* C19 (as claimed): the pose with shoulders (250,180) and (350,220), analysed
\* with the default thresholds and no calibration, has shoulderAlignment 40, bad
\* posture and the feedback that names the left shoulder as the higher one.
C19_LeftShoulderNamedHigher ==
  (Analyzed /\ analyzeCall.poses = <<ShoulderTiltPose>> /\ analyzeCall.settings = <<>>
     /\ ~analyzeCall.calibrated) =>
    /\ analyzeCall.result.shoulderAlignment = 40
    /\ ~analyzeCall.result.isGoodPosture
    /\ analyzeCall.result.feedback = "Your left shoulder is higher. Try to level your shoulders"

\* C20: for a complete pose the posture is good exactly when the shoulder
\* alignment is below the shoulder threshold and the slouch level below the
\* slouch threshold the analysis classified with.
C20_GoodIffBothBelowThreshold ==
  (Analyzed /\ CompletePose(analyzeCall.poses)) =>
    (analyzeCall.result.isGoodPosture <=>
       /\ Units(analyzeCall.result.shoulderAlignment)
            < analyzeCall.currentSettings.shoulderAlignmentThreshold
       /\ analyzeCall.result.slouchLevel < analyzeCall.currentSettings.slouchThreshold)

\* C20 witness: a complete pose whose shoulder alignment equals the threshold
\* and whose slouch level is below its threshold has been classified bad.
C20_Witness ==
  /\ Analyzed
  /\ CompletePose(analyzeCall.poses)
  /\ Units(analyzeCall.result.shoulderAlignment)
       = analyzeCall.currentSettings.shoulderAlignmentThreshold
  /\ analyzeCall.result.slouchLevel < analyzeCall.currentSettings.slouchThreshold
  /\ ~analyzeCall.result.isGoodPosture

\* ------------------------------------------------------- scheduler claims
\* The tracker is neutral: no start time, duration 0, status unknown.
Neutral(status, duration, start) == status = "unknown" /\ duration = 0 /\ start = Null

\* The stop branch of the start/stop effect runs: the webcam is switched off,
\* or the effect is re-run while the webcam is off.
Stops == isWebcamOn /\ ~isWebcamOn'
StopsAgain ==
  ~isWebcamOn /\ ~isWebcamOn' /\ (isTabVisible' # isTabVisible \/ modelReady' # modelReady)

\* C23 (as claimed): a stop leaves no animation frame pending and the tracker
\* neutral, and a stop of a stopped scheduler changes nothing.
C23_StopCancelsAndResets ==
  [][/\ Stops =>
          /\ pendingFrames' = <<>>
          /\ Neutral(postureStatus', badPostureDuration', badPostureStartTimeRef')
     /\ StopsAgain =>
          UNCHANGED <<pendingFrames, postureStatus, badPostureDuration,
                      badPostureStartTimeRef>>]_vars

\* C15 (as claimed): at most one processFrame run awaits detectPose at any time.
C15_AtMostOneRunInFlight == Len(inFlight) <= 1

\* C16 (as claimed): with the webcam off, a run whose detectPose settles changes
\* neither the posture status nor the bad-posture session and requests no frame.
C16_LateResultChangesNothing ==
  [][(~isWebcamOn /\ Len(inFlight') < Len(inFlight)) =>
       UNCHANGED <<postureStatus, badPostureDuration, badPostureStartTimeRef,
                   intervalDue, pendingFrames>>]_vars

\* C24: no pipeline run starts while the tab is not visible: whenever a run
\* starts to await detectPose, the tab is visible.
C24_NoRunStartsWhileHidden ==
  [][Len(inFlight') > Len(inFlight) => isTabVisible']_vars

\* C24 witness: the tab is hidden with the webcam on and the model ready, and
\* an animation frame is pending that a run requested with the isTabVisible =
\* true it had closed over.
C24_Witness ==
  /\ ~isTabVisible
  /\ isWebcamOn
  /\ modelReady
  /\ inFlight = <<>>
  /\ \E i \in DOMAIN pendingFrames :
       pendingFrames[i].isTabVisible /\ pendingFrames[i].modelReady

\* C25: when the tab becomes visible again while the webcam is on and the model
\* ready, a pipeline run starts in the handling of that event, with no further
\* action of the user.
C25_ResumeStartsRun ==
  [][(~isTabVisible /\ isTabVisible' /\ isWebcamOn /\ modelReady) =>
       /\ Len(inFlight') = Len(inFlight) + 1
       /\ inFlight'[Len(inFlight')] = Closure(TRUE, TRUE, TRUE)]_vars

\* C25 witness: the tab has just become visible again with the webcam on and
\* the model ready, and a run is awaiting detectPose.
C25_Witness ==
  /\ lastEvent = "visibilitychange"
  /\ isTabVisible
  /\ isWebcamOn
  /\ modelReady
  /\ inFlight # <<>>

C27_DisabledIsNoOp ==
  [][\A t \in Tabs :
       (/\ \E emitOk \in BOOLEAN : Notify(t, emitOk)
        /\ ~notificationEnabled[t]) =>
         UNCHANGED <<alerts, permission, promptOpen, lastNotificationTime, channel>>]_vars

\* C27 witness: the latest call was made in a tab with notifications disabled
\* that is off cooldown, with the permission granted and alerts already created
\* elsewhere: the call would have created an alert had the tab been enabled.
C27_Witness ==
  /\ notifyCall.tab \in Tabs
  /\ ~notifyCall.enabled
  /\ notifyCall.permission = "granted"
  /\ alerts # <<>>
  /\ ~OnCooldown(notifyCall.tab)

\* ------------------------------------------------- tracker claims, continued
\* C31: the step that makes the status bad stores the current time as the start
\* of the session; while the status stays bad the start does not change and
\* the duration shown does not decrease.
C31_StartKeptWhileBad ==
  [][/\ (postureStatus # "bad" /\ postureStatus' = "bad") =>
          badPostureStartTimeRef' = now
     /\ (postureStatus = "bad" /\ postureStatus' = "bad") =>
          /\ badPostureStartTimeRef' = badPostureStartTimeRef
          /\ badPostureDuration' >= badPostureDuration]_vars

\* C31 witness: a bad-posture session has lasted several ticks: the duration
\* shown is more than two seconds and is measured from the start stored at the
\* first bad frame.
C31_Witness ==
  /\ postureStatus = "bad"
  /\ badPostureStartTimeRef # Null
  /\ badPostureDuration > 2 * StepsPerSecond
  /\ badPostureDuration <= now - badPostureStartTimeRef

\* ------------------------------------------------- notify claims, continued
\* C32: a call of notifyBadPosture that passes the tests and whose Notification
\* constructor throws still returns with the tab's timestamp set to the current
\* time and the broadcast sent to every other tab, and no alert shown; a call
\* repeated at once is on cooldown.
C32_FailedEmitStillStamps ==
  [][\A t \in Tabs :
       (/\ Notify(t, FALSE)
        /\ notificationEnabled[t]
        /\ permission = "granted"
        /\ ~OnCooldown(t)) =>
         /\ lastNotificationTime'[t] = now
         /\ \A r \in Tabs \ {t} :
              channel'[r][t] = Append(channel[r][t], BroadcastMessage(t))
         /\ alerts' = Append(alerts, [alerts'[Len(alerts')] EXCEPT !.shown = FALSE])
         /\ OnCooldown(t)']_vars

\* C32 witness: the latest alert was not shown because its creation threw, its
\* tab was called again, and the tab holds the alert's time and is on cooldown.
C32_Witness ==
  /\ alerts # <<>>
  /\ ~alerts[Len(alerts)].shown
  /\ notifyCall.tab = alerts[Len(alerts)].tab
  /\ lastNotificationTime[notifyCall.tab] = alerts[Len(alerts)].time
  /\ OnCooldown(notifyCall.tab)
  /\ \A r \in Tabs \ {notifyCall.tab} : channel[r][notifyCall.tab] # <<>>

\* ------------------------------------------------ analysis claims, continued
\* The two tests of a classified pose, from the metrics and settings of the call.
ShoulderOk ==
  Units(analyzeCall.result.shoulderAlignment)
    < analyzeCall.currentSettings.shoulderAlignmentThreshold
SlouchOk == analyzeCall.result.slouchLevel < analyzeCall.currentSettings.slouchThreshold

\* C33: the feedback of a classified pose is a function of the two tests: both
\* failed, the combined message; only the shoulder test failed, the message
\* naming left iff leftShoulder.y < rightShoulder.y, else right; only the
\* slouch test failed, "slightly" iff slouchLevel <= 1.5 * slouchThreshold,
\* else "significantly"; both passed, the affirmative message.
C33_FeedbackByPriority ==
  (Analyzed /\ CompletePose(analyzeCall.poses)) =>
    analyzeCall.result.feedback =
      IF ~ShoulderOk /\ ~SlouchOk
      THEN "Fix your posture: level your shoulders and sit up straight"
      ELSE IF ~ShoulderOk
      THEN IF analyzeCall.poses[1]["left_shoulder"].y
                < analyzeCall.poses[1]["right_shoulder"].y
           THEN "Your left shoulder is higher. Try to level your shoulders"
           ELSE "Your right shoulder is higher. Try to level your shoulders"
      ELSE IF ~SlouchOk
      THEN IF 2 * analyzeCall.result.slouchLevel
                <= 3 * analyzeCall.currentSettings.slouchThreshold
           THEN "You're slightly slouching forward. Sit up straight!"
           ELSE "You're significantly slouching forward. Sit up straight!"
      ELSE "Your posture looks good!"

\* C33 witness: a pose whose left shoulder is the higher one failed the shoulder
\* test only and the message names the left shoulder.
C33_Witness ==
  /\ Analyzed
  /\ CompletePose(analyzeCall.poses)
  /\ ~ShoulderOk
  /\ SlouchOk
  /\ analyzeCall.poses[1]["left_shoulder"].y < analyzeCall.poses[1]["right_shoulder"].y
  /\ analyzeCall.result.feedback
       = "Your left shoulder is higher. Try to level your shoulders"

\* C35 (as claimed): without a calibration profile the slouchLevel of a
\* classified pose is (leftSlouchAngle + rightSlouchAngle) / 2.
C35_PlainAverageWithoutProfile ==
  (Analyzed /\ CompletePose(analyzeCall.poses) /\ ~analyzeCall.calibrated) =>
    LET pose == analyzeCall.poses[1]
        leftSlouchAngle ==
          calculateAngle(pose["left_ear"].x, pose["left_ear"].y,
                         pose["left_shoulder"].x, pose["left_shoulder"].y,
                         pose["left_shoulder"].x + 10, pose["left_shoulder"].y)
        rightSlouchAngle ==
          calculateAngle(pose["right_ear"].x, pose["right_ear"].y,
                         pose["right_shoulder"].x, pose["right_shoulder"].y,
                         pose["right_shoulder"].x + 10, pose["right_shoulder"].y)
    \* angles in hundredths of a degree, the level in units of 1/2000 degree
    IN analyzeCall.result.slouchLevel = (leftSlouchAngle + rightSlouchAngle) * 10

\* C38: analysing the pose of the last capture, which succeeded and whose
\* profile is the one in memory, with base thresholds above 0 gives good posture.
\* (A step that changes analyzeCall is a call of analyzePosture.)
C38_ReferencePoseIsGood ==
  [][(/\ calibrateCall.result = "true"
      /\ calibrationData = <<CalibrationDataOf(calibrateCall.poses[1])>>
      /\ analyzeCall' # analyzeCall
      /\ analyzeCall'.poses = calibrateCall.poses
      /\ BaseSettings(analyzeCall'.settings).shoulderAlignmentThreshold > 0
      /\ BaseSettings(analyzeCall'.settings).slouchThreshold > 0) =>
       analyzeCall'.result.isGoodPosture]_vars

\* C38 witness: the pose captured last, with its shoulders 30 px apart in
\* height, was analysed under its own profile and found good.
C38_Witness ==
  /\ Analyzed
  /\ calibrateCall.result = "true"
  /\ calibrateCall.poses = analyzeCall.poses
  /\ calibrationData = <<CalibrationDataOf(analyzeCall.poses[1])>>
  /\ analyzeCall.calibrated
  /\ analyzeCall.result.shoulderAlignment = 30
  /\ analyzeCall.result.isGoodPosture

\* ------------------------------------------------------------ frame claims
\* C39: a frame in which no pose was detected or a required joint is missing
\* sets the status to bad exactly as a frame classified bad does: it takes the
\* current time as the start of a session when none is active, and leaves the
\* start, the duration and the tiers of an active session as they are.
C39_UndetectedFrameIsBad ==
  [][\A poses \in {p \in FramePosesInputs : p = <<>> \/ IncompletePose(p)} :
       DetectedFrame(poses) =>
         /\ setPostureStatus("bad")
         /\ postureStatus' = "bad"
         /\ badPostureStartTimeRef' =
              IF badPostureStartTimeRef = Null THEN now ELSE badPostureStartTimeRef
         /\ badPostureStartTimeRef # Null =>
              UNCHANGED <<badPostureDuration, intervalDue, tierFired>>]_vars

\* C39 witness: the latest frame had no pose, the session it belongs to has
\* lasted a minute and its periodic alert has been raised.
C39_Witness ==
  /\ analyzeCall.poses = <<>>
  /\ analyzeCall.result.feedback = "No person detected"
  /\ postureStatus = "bad"
  /\ badPostureStartTimeRef # Null
  /\ AtLeastSeconds(badPostureDuration, 60)
  /\ tierFired[3] # <<>>
  /\ alerts # <<>>

\* -------------------------------------------------------------- app claims
\* C34 (as claimed): while a calibration capture is in progress no run of the
\* frame pipeline is in flight and no animation frame is requested.
C34_CaptureExcludesLoop ==
  calibrating => (inFlight = <<>> /\ pendingFrames = <<>>)

\* C36 (as claimed): a loadModel() call that resolved found or left the detector
\* loaded, whoever called it, and at most one detector is ever created.
C36_ResolvedLoadHasDetector ==
  /\ loadModelCall.outcome = "resolved" => loadModelCall.loaded
  /\ detectorsCreated <= 1

\* C37 (as claimed): the Continue step of the modal, which sets isCalibrated,
\* is taken only after a capture has succeeded since the modal was last opened
\* and while a profile is stored.
C37_SuccessOnlyAfterCapture ==
  [][handleComplete => (capturedSinceOpen /\ calibrationData # <<>>)]_vars

====
